---- MODULE Spec2Model ----
(***************************************************************************)
(* A model of bioio_base.reader.Reader: the scene / resolution-level state *)
(* machine and its lazy / eager / mosaic / dims / metadata caches.         *)
(*                                                                         *)
(* Every method of the Reader is an operator from the reader object (a     *)
(* record of the instance attributes) to an outcome record                 *)
(*     [self |-> the object afterwards, exc |-> the exception raised or    *)
(*      NoExc, ret |-> the value returned]                                 *)
(* so that a method calling another method is the composition of the two   *)
(* operators.  The abstract members a format plugin supplies (scenes,      *)
(* _read_delayed, _read_immediate, the optional overrides) are modelled by *)
(* a small family of plugins chosen in Init.                               *)
(***************************************************************************)
EXTENDS Integers, Sequences, FiniteSets, TLC

VARIABLES reader, plugin, last, returned, dimcall, metacall, second, frame

vars == <<reader, plugin, last, returned, dimcall, metacall, second, frame>>

(***************************************************************************)
(* Bounds                                                                  *)
(***************************************************************************)
\* number of scenes of the modelled image
NumScenes == 2
\* number of resolution levels of the modelled pyramid
NumLevels == 2
\* longest dims, shape and lookup key handed to a Dimensions
MaxRank == 2
\* largest size of an axis handed to a Dimensions
MaxSize == 2
\* the ghost invocation counters stop counting here
MaxCalls == 2
\* longest shape handed to _guess_dim_order
MaxShapeLen == 6

(***************************************************************************)
(* Python values                                                           *)
(***************************************************************************)
None == [kind |-> "None"]

NoExc == [type |-> "NoExc", site |-> "-"]

Exc(type, site) == [type |-> type, site |-> site]

Ok(s, v) == [self |-> s, exc |-> NoExc, ret |-> v]

Raise(s, e) == [self |-> s, exc |-> e, ret |-> None]

\* a call inside a method: an exception it raises leaves the method at once,
\* otherwise the method goes on with its outcome
Bind(r, Continue(_)) == IF r.exc # NoExc THEN r ELSE Continue(r)

IntArg(i) == [t |-> "int", v |-> i, s |-> "-"]

StrArg(x) == [t |-> "str", v |-> 0, s |-> x]

NoArg == [t |-> "none", v |-> 0, s |-> "-"]

\* seq[i] for a Python tuple of length Len(seq): negative i counts from the end
PyIndexValid(i, n) == -n <= i /\ i < n

PyIndex(i, n) == IF i < 0 THEN n + i ELSE i

\* tuple.index(x): position of the first occurrence
TupleIndex(seq, x) == CHOOSE i \in 0..(Len(seq) - 1) :
                          /\ seq[i + 1] = x
                          /\ \A j \in 0..(i - 1) : seq[j + 1] # x

InTuple(x, seq) == \E i \in 1..Len(seq) : seq[i] = x

(***************************************************************************)
(* The format plugin: the abstract members of Reader                       *)
(***************************************************************************)
SceneIds == <<"A", "B", "C", "D", "E", "F">>

scenes == SubSeq(SceneIds, 1, NumScenes)

Primitives == {"_read_delayed", "_read_immediate",
               "_get_stitched_dask_mosaic", "_get_stitched_mosaic"}

\* levels: the plugin keeps the default resolution_levels or overrides it
\* with a pyramid; mosaic: which scenes carry a tile axis; stitch: the plugin
\* overrides the two stitch primitives; caches_pps: the plugin overrides
\* physical_pixel_sizes and caches the value in _physical_pixel_sizes
PluginOf(levels, mosaic, stitch, caches_pps) ==
    [levels |-> levels, mosaic |-> mosaic, stitch |-> stitch,
     caches_pps |-> caches_pps, axes |-> <<"T", "C", "Z", "Y", "X">>]

\* the same plugin for a format whose images have only the given axes
\* the same plugin with a transformer of its metadata to OME
Plugins == {PluginOf("default", "none", FALSE, FALSE),
            PluginOf("pyramid", "odd", TRUE, TRUE),
            PluginOf("default", "all", FALSE, TRUE),
            PluginOf("pyramid", "all", TRUE, FALSE)}

\* the axis labels of the array the plugin returns for the scene at position
\* p: the scenes that carry a mosaic tile axis have it in front
SceneOrder(pl, p) == IF \/ pl.mosaic = "all"
                        \/ pl.mosaic = "odd" /\ p % 2 = 1
                     THEN <<"M">> \o pl.axes
                     ELSE pl.axes

\* the size of an axis of the scene at position p at level l
AxisSize(label, p, l) ==
    CASE label = "M" -> 2
      [] label = "T" -> p + 1
      [] label = "C" -> 2
      [] label = "Z" -> 1
      [] OTHER -> 4 - l

\* the shape of the array the plugin returns for position p at level l
SceneShape(pl, p, l) ==
    [i \in 1..Len(SceneOrder(pl, p)) |-> AxisSize(SceneOrder(pl, p)[i], p, l)]

\* the levels of the pyramid stored for the scene at position p
PyramidLevels(p) ==
    LET n == IF p % 2 = 0 THEN NumLevels ELSE NumLevels - 1
    IN  [i \in 1..n |-> i - 1]

(***************************************************************************)
(* The reader object                                                       *)
(***************************************************************************)
NoCalls == [p \in Primitives |-> 0]

\* ClassDefaults with a class attribute that starts at another level
ClassDefaults_level_one ==
    [_xarray_dask_data |-> None,
     _xarray_data |-> None,
     _mosaic_xarray_dask_data |-> None,
     _mosaic_xarray_data |-> None,
     _dims |-> None,
     _metadata |-> None,
     _physical_pixel_sizes |-> None,
     _current_scene_index |-> 0,
     _current_resolution_level |-> 1,
     _produced |-> NoCalls,
     _switches |-> 0]

\* the class-level defaults every instance starts from.  Two ghost attributes
\* observe the object: _produced counts the results each plugin primitive
\* has returned since the last _reset_self (an invocation that raises
\* produces nothing and shows as the exception of the call), _switches counts
\* the assignments to _current_scene_index and _current_resolution_level
\* during the current call
ClassDefaults ==
    [_xarray_dask_data |-> None,
     _xarray_data |-> None,
     _mosaic_xarray_dask_data |-> None,
     _mosaic_xarray_data |-> None,
     _dims |-> None,
     _metadata |-> None,
     _physical_pixel_sizes |-> None,
     _current_scene_index |-> 0,
     _current_resolution_level |-> 0,
     _produced |-> NoCalls,
     _switches |-> 0]

CacheEntries == {"_xarray_dask_data", "_xarray_data",
                 "_mosaic_xarray_dask_data", "_mosaic_xarray_data",
                 "_dims", "_metadata", "_physical_pixel_sizes"}

Count(s, prim) ==
    [s EXCEPT !._produced[prim] = IF @ < MaxCalls THEN @ + 1 ELSE @]

current_scene_index(s) == Ok(s, s._current_scene_index)

current_scene(s) ==
    IF PyIndexValid(s._current_scene_index, Len(scenes))
    THEN Ok(s, scenes[PyIndex(s._current_scene_index, Len(scenes)) + 1])
    ELSE Raise(s, Exc("IndexError", "tuple index out of range"))

current_resolution_level(s) == Ok(s, s._current_resolution_level)

resolution_levels(pl, s) ==
    IF pl.levels = "default"
    THEN Ok(s, <<s._current_resolution_level>>)
    ELSE IF PyIndexValid(s._current_scene_index, Len(scenes))
         THEN Ok(s, PyramidLevels(PyIndex(s._current_scene_index, Len(scenes))))
         ELSE Raise(s, Exc("IndexError", "tuple index out of range"))

\* _reset_self that forgets the eager mosaic and the metadata
_reset_self_keeps_mosaic(s) ==
    [s EXCEPT !._xarray_dask_data = None,
              !._xarray_data = None,
              !._mosaic_xarray_dask_data = None,
              !._dims = None,
              !._physical_pixel_sizes = None,
              !._produced = NoCalls]

\* _reset_self that keeps the lazy view
_reset_self_keeps_lazy(s) ==
    [s EXCEPT !._xarray_data = None,
              !._mosaic_xarray_dask_data = None,
              !._mosaic_xarray_data = None,
              !._dims = None,
              !._metadata = None,
              !._physical_pixel_sizes = None,
              !._produced = NoCalls]

_reset_self(s) ==
    [s EXCEPT !._xarray_dask_data = None,
              !._xarray_data = None,
              !._mosaic_xarray_dask_data = None,
              !._mosaic_xarray_data = None,
              !._dims = None,
              !._metadata = None,
              !._physical_pixel_sizes = None,
              !._produced = NoCalls]

\* set_scene whose string branch updates the index and forgets _reset_self
set_scene_id_keeps_cache(s, scene_id) ==
    IF scene_id.t = "str"
    THEN LET cur == current_scene(s)
         IN  IF cur.exc # NoExc THEN cur
             ELSE IF scene_id.s # cur.ret
             THEN IF ~InTuple(scene_id.s, scenes)
                  THEN Raise(s, Exc("IndexError", "scene id is not present"))
                  ELSE Ok([s EXCEPT !._current_scene_index =
                                        TupleIndex(scenes, scene_id.s),
                                    !._switches = @ + 1],
                          None)
             ELSE Ok(s, None)
    ELSE IF scene_id.t = "int"
    THEN IF scene_id.v # s._current_scene_index
         THEN IF scene_id.v >= Len(scenes)
              THEN Raise(s, Exc("IndexError", "scene index is greater than the maximum"))
              ELSE Ok(_reset_self(
                       [s EXCEPT !._current_scene_index = scene_id.v,
                                 !._switches = @ + 1]),
                      None)
         ELSE Ok(s, None)
    ELSE Raise(s, Exc("TypeError", "must provide either a string or integer"))

\* set_scene without the test that skips the current scene
set_scene_always_resets(s, scene_id) ==
    IF scene_id.t = "str"
    THEN LET cur == current_scene(s)
         IN  IF cur.exc # NoExc THEN cur
             ELSE IF ~InTuple(scene_id.s, scenes)
             THEN Raise(s, Exc("IndexError", "scene id is not present"))
             ELSE Ok(_reset_self(
                      [s EXCEPT !._current_scene_index =
                                    TupleIndex(scenes, scene_id.s),
                                !._switches = @ + 1]),
                     None)
    ELSE IF scene_id.t = "int"
    THEN IF scene_id.v >= Len(scenes)
         THEN Raise(s, Exc("IndexError", "scene index is greater than the maximum"))
         ELSE Ok(_reset_self(
                  [s EXCEPT !._current_scene_index = scene_id.v,
                            !._switches = @ + 1]),
                 None)
    ELSE Raise(s, Exc("TypeError", "must provide either a string or integer"))

\* set_scene that validates the index with > instead of >=
set_scene_off_by_one(s, scene_id) ==
    IF scene_id.t = "str"
    THEN LET cur == current_scene(s)
         IN  IF cur.exc # NoExc THEN cur
             ELSE IF scene_id.s # cur.ret
             THEN IF ~InTuple(scene_id.s, scenes)
                  THEN Raise(s, Exc("IndexError", "scene id is not present"))
                  ELSE Ok(_reset_self(
                           [s EXCEPT !._current_scene_index =
                                         TupleIndex(scenes, scene_id.s),
                                     !._switches = @ + 1]),
                          None)
             ELSE Ok(s, None)
    ELSE IF scene_id.t = "int"
    THEN IF scene_id.v # s._current_scene_index
         THEN IF scene_id.v > Len(scenes)
              THEN Raise(s, Exc("IndexError", "scene index is greater than the maximum"))
              ELSE Ok(_reset_self(
                       [s EXCEPT !._current_scene_index = scene_id.v,
                                 !._switches = @ + 1]),
                      None)
         ELSE Ok(s, None)
    ELSE Raise(s, Exc("TypeError", "must provide either a string or integer"))

set_scene(s, scene_id) ==
    IF scene_id.t = "str"
    THEN LET cur == current_scene(s)
         IN  IF cur.exc # NoExc THEN cur
             ELSE IF scene_id.s # cur.ret
             THEN IF ~InTuple(scene_id.s, scenes)
                  THEN Raise(s, Exc("IndexError", "scene id is not present"))
                  ELSE Ok(_reset_self(
                           [s EXCEPT !._current_scene_index =
                                         TupleIndex(scenes, scene_id.s),
                                     !._switches = @ + 1]),
                          None)
             ELSE Ok(s, None)
    ELSE IF scene_id.t = "int"
    THEN IF scene_id.v # s._current_scene_index
         THEN IF scene_id.v >= Len(scenes)
              THEN Raise(s, Exc("IndexError", "scene index is greater than the maximum"))
              ELSE Ok(_reset_self(
                       [s EXCEPT !._current_scene_index = scene_id.v,
                                 !._switches = @ + 1]),
                      None)
         ELSE Ok(s, None)
    ELSE Raise(s, Exc("TypeError", "must provide either a string or integer"))

\* set_resolution_level that clears the arrays only
set_resolution_level_partial_reset(pl, s, resolution_level) ==
    LET lv == resolution_levels(pl, s)
    IN  IF lv.exc # NoExc THEN lv
        ELSE IF ~InTuple(resolution_level, lv.ret)
        THEN Raise(s, Exc("IndexError", "resolution level is not present"))
        ELSE IF resolution_level # s._current_resolution_level
        THEN Ok([s EXCEPT !._current_resolution_level = resolution_level,
                          !._switches = @ + 1,
                          !._xarray_dask_data = None,
                          !._xarray_data = None,
                          !._mosaic_xarray_dask_data = None,
                          !._mosaic_xarray_data = None,
                          !._produced = NoCalls],
                None)
        ELSE Ok(s, None)

\* set_resolution_level without the membership test
set_resolution_level_unchecked(pl, s, resolution_level) ==
    IF resolution_level # s._current_resolution_level
    THEN Ok(_reset_self(
             [s EXCEPT !._current_resolution_level = resolution_level,
                       !._switches = @ + 1]),
            None)
    ELSE Ok(s, None)

\* set_resolution_level that invalidates on every valid request
set_resolution_level_always_resets(pl, s, resolution_level) ==
    LET lv == resolution_levels(pl, s)
    IN  IF lv.exc # NoExc THEN lv
        ELSE IF ~InTuple(resolution_level, lv.ret)
        THEN Raise(s, Exc("IndexError", "resolution level is not present"))
        ELSE Ok(_reset_self(
                 [s EXCEPT !._current_resolution_level = resolution_level,
                           !._switches = @ + 1]),
                None)

set_resolution_level(pl, s, resolution_level) ==
    LET lv == resolution_levels(pl, s)
    IN  IF lv.exc # NoExc THEN lv
        ELSE IF ~InTuple(resolution_level, lv.ret)
        THEN Raise(s, Exc("IndexError", "resolution level is not present"))
        ELSE IF resolution_level # s._current_resolution_level
        THEN Ok(_reset_self(
                 [s EXCEPT !._current_resolution_level = resolution_level,
                           !._switches = @ + 1]),
                None)
        ELSE Ok(s, None)

(***************************************************************************)
(* The plugin primitives.  env is the set of primitives that raise during  *)
(* the call (an I/O failure of the format reader).                         *)
(***************************************************************************)
\* the array a primitive returns: read from the current scene and level
PluginArray(pl, s, origin, backing) ==
    LET p == PyIndex(s._current_scene_index, Len(scenes))
    IN  [kind |-> "DataArray",
         backing |-> backing,
         origin |-> origin,
         scene |-> s._current_scene_index,
         level |-> s._current_resolution_level,
         serial |-> s._produced[origin],
         dims |-> SceneOrder(pl, p),
         shape |-> SceneShape(pl, p, s._current_resolution_level)]

PluginRead(pl, s, env, origin, backing) ==
    IF origin \in env
    THEN Raise(s, Exc("IOError", origin))
    ELSE IF ~PyIndexValid(s._current_scene_index, Len(scenes))
    THEN Raise(s, Exc("IndexError", origin))
    ELSE LET c == Count(s, origin)
         IN  Ok(c, PluginArray(pl, c, origin, backing))

_read_delayed(pl, s, env) == PluginRead(pl, s, env, "_read_delayed", "dask")

_read_immediate(pl, s, env) == PluginRead(pl, s, env, "_read_immediate", "numpy")

(***************************************************************************)
(* The lazy and the eager view                                             *)
(***************************************************************************)
\* xarray_dask_data that reads the plugin on every request
xarray_dask_data_rereads(pl, s, env) ==
    Bind(_read_delayed(pl, s, env), LAMBDA r :
        Ok([r.self EXCEPT !._xarray_dask_data = r.ret], r.ret))

xarray_dask_data(pl, s, env) ==
    IF s._xarray_dask_data = None
    THEN Bind(_read_delayed(pl, s, env), LAMBDA r :
             Ok([r.self EXCEPT !._xarray_dask_data = r.ret], r.ret))
    ELSE Ok(s, s._xarray_dask_data)

\* xr.DataArray(da.from_array(a.data), dims=a.dims, coords=a.coords, attrs=a.attrs)
FromArray(a) == [a EXCEPT !.backing = "dask", !.origin = "from_array"]

\* xarray_data that remakes the lazy view and forgets to keep the eager one
xarray_data_uncached(pl, s, env) ==
    IF s._xarray_data = None
    THEN LET r == _read_immediate(pl, s, env)
         IN  IF r.exc # NoExc THEN r
             ELSE Ok([r.self EXCEPT !._xarray_dask_data = FromArray(r.ret)],
                     r.ret)
    ELSE Ok(s, s._xarray_data)

\* xarray_data that keeps the eager array and leaves the lazy cache alone
xarray_data_no_upgrade(pl, s, env) ==
    IF s._xarray_data = None
    THEN LET r == _read_immediate(pl, s, env)
         IN  IF r.exc # NoExc THEN r
             ELSE Ok([r.self EXCEPT !._xarray_data = r.ret], r.ret)
    ELSE Ok(s, s._xarray_data)

\* xarray_data that drops every cache entry when the read fails
xarray_data_resets_on_failure(pl, s, env) ==
    IF s._xarray_data = None
    THEN LET r == _read_immediate(pl, s, env)
         IN  IF r.exc # NoExc THEN Raise(_reset_self(s), r.exc)
             ELSE Ok([r.self EXCEPT !._xarray_data = r.ret,
                                    !._xarray_dask_data = FromArray(r.ret)],
                     r.ret)
    ELSE Ok(s, s._xarray_data)

xarray_data(pl, s, env) ==
    IF s._xarray_data = None
    THEN Bind(_read_immediate(pl, s, env), LAMBDA r :
             Ok([r.self EXCEPT !._xarray_data = r.ret,
                               !._xarray_dask_data = FromArray(r.ret)],
                r.ret))
    ELSE Ok(s, s._xarray_data)

dask_data(pl, s, env) == xarray_dask_data(pl, s, env)

data(pl, s, env) == xarray_data(pl, s, env)

\* shape that materialises the image to measure it
shape_of_eager(pl, s, env) ==
    LET r == xarray_data(pl, s, env)
    IN  IF r.exc # NoExc THEN r ELSE Ok(r.self, r.ret.shape)

shape(pl, s, env) ==
    Bind(xarray_dask_data(pl, s, env), LAMBDA r : Ok(r.self, r.ret.shape))

dtype(pl, s, env) ==
    Bind(xarray_dask_data(pl, s, env), LAMBDA r :
        Ok(r.self, [kind |-> "dtype"]))

(***************************************************************************)
(* bioio_base.dimensions.Dimensions.  A Python str is the sequence of its  *)
(* characters; the dims argument and a lookup key are a str, PyStr(chars), *)
(* or a collection of strs, PyTuple(strs).                                 *)
(***************************************************************************)
PyStr(chars) == [t |-> "str", v |-> chars]

PyTuple(strs) == [t |-> "tuple", v |-> strs]

RECURSIVE Join(_)
\* "".join(strs)
Join(strs) == IF strs = <<>> THEN <<>> ELSE Head(strs) \o Join(Tail(strs))

\* sub in text, for two strs
Substring(sub, text) ==
    \E i \in 0..(Len(text) - Len(sub)) :
        SubSeq(text, i + 1, i + Len(sub)) = sub

\* dict(zip(keys, values)): a later pair replaces an earlier one of the same key
DictZip(keys, values) ==
    [k \in {keys[i] : i \in 1..Len(keys)} |->
        values[CHOOSE i \in 1..Len(keys) :
                   /\ keys[i] = k
                   /\ \A j \in (i + 1)..Len(keys) : keys[j] # k]]

\* Dimensions.__init__ without the test of the length of each label
Dimensions_any_label(dims, shp) ==
    IF Len(dims.v) # Len(shp)
    THEN [exc |-> Exc("ValueError", "number of dimensions does not match shape"),
          ret |-> None]
    ELSE [exc |-> NoExc,
          ret |-> [kind |-> "Dimensions",
                   order |-> IF dims.t = "str" THEN dims.v ELSE Join(dims.v),
                   shape |-> shp]]

\* Dimensions.__init__: the object keeps _order and _shape; _dims_shape and
\* the attribute of each label are functions of the two
Dimensions(dims, shp) ==
    IF Len(dims.v) # Len(shp)
    THEN [exc |-> Exc("ValueError", "number of dimensions does not match shape"),
          ret |-> None]
    ELSE IF dims.t # "str" /\ \E i \in 1..Len(dims.v) : Len(dims.v[i]) # 1
    THEN [exc |-> Exc("ValueError",
                      "each dimension may only be a single character long"),
          ret |-> None]
    ELSE [exc |-> NoExc,
          ret |-> [kind |-> "Dimensions",
                   order |-> IF dims.t = "str" THEN dims.v ELSE Join(dims.v),
                   shape |-> shp]]

_dims_shape(d) == DictZip(d.order, d.shape)

\* self._dims_shape[key] for a str key: the keys of the dict are the labels
DictLookup(d, key) ==
    IF Len(key) = 1 /\ key[1] \in DOMAIN _dims_shape(d)
    THEN [exc |-> NoExc, ret |-> _dims_shape(d)[key[1]]]
    ELSE [exc |-> Exc("KeyError", "_dims_shape"), ret |-> None]

\* IndexError(f"{', '.join(invalid_dims)} not in {self._order}")
NotInOrder(invalid_dims, order) ==
    [type |-> "IndexError", site |-> "not in order",
     names |-> invalid_dims, order |-> order]

RECURSIVE LookupAll(_, _, _)
\* tuple(self._dims_shape[k] for k in key)
LookupAll(d, key, acc) ==
    IF key = <<>> THEN [exc |-> NoExc, ret |-> acc]
    ELSE LET r == DictLookup(d, Head(key))
         IN  IF r.exc # NoExc THEN r
             ELSE LookupAll(d, Tail(key), Append(acc, r.ret))

\* __getitem__ that stops at the first label it does not find
getitem_reports_first_missing(d, key) ==
    IF key.t = "str"
    THEN IF ~Substring(key.v, d.order)
         THEN [exc |-> NotInOrder(<<key.v>>, d.order), ret |-> None]
         ELSE LET r == DictLookup(d, key.v)
              IN  IF r.exc # NoExc THEN r
                  ELSE [exc |-> NoExc, ret |-> <<r.ret>>]
    ELSE IF key.t = "tuple"
    THEN LET invalid_dims ==
                 SelectSeq(key.v, LAMBDA k : ~Substring(k, d.order))
         IN  IF Len(invalid_dims) = 0
             THEN LookupAll(d, key.v, <<>>)
             ELSE [exc |-> NotInOrder(<<Head(invalid_dims)>>, d.order),
                   ret |-> None]
    ELSE [exc |-> Exc("TypeError", "key must be a string or list of strings"),
          ret |-> None]

__getitem__(d, key) ==
    IF key.t = "str"
    THEN IF ~Substring(key.v, d.order)
         THEN [exc |-> NotInOrder(<<key.v>>, d.order), ret |-> None]
         ELSE LET r == DictLookup(d, key.v)
              IN  IF r.exc # NoExc THEN r
                  ELSE [exc |-> NoExc, ret |-> <<r.ret>>]
    ELSE IF key.t = "tuple"
    THEN LET invalid_dims ==
                 SelectSeq(key.v, LAMBDA k : ~Substring(k, d.order))
         IN  IF Len(invalid_dims) = 0
             THEN LookupAll(d, key.v, <<>>)
             ELSE [exc |-> NotInOrder(invalid_dims, d.order), ret |-> None]
    ELSE [exc |-> Exc("TypeError", "key must be a string or list of strings"),
          ret |-> None]

\* the attribute set for a label by setattr(self, dim, size)
__getattr__(d, name) ==
    IF name \in DOMAIN _dims_shape(d)
    THEN [exc |-> NoExc, ret |-> _dims_shape(d)[name]]
    ELSE [exc |-> Exc("AttributeError", name), ret |-> None]

\* the dims of a DataArray: a tuple of strs
AxisNames(a) == PyTuple([i \in 1..Len(a.dims) |-> <<a.dims[i]>>])

\* dims that measures a fresh _read_delayed result and keeps no lazy view
dims_without_lazy_view(pl, s, env) ==
    IF s._dims = None
    THEN Bind(_read_delayed(pl, s, env), LAMBDA a :
             LET d == Dimensions(AxisNames(a.ret), a.ret.shape)
             IN  IF d.exc # NoExc THEN Raise(a.self, d.exc)
                 ELSE Ok([a.self EXCEPT !._dims = d.ret], d.ret))
    ELSE Ok(s, s._dims)

dims(pl, s, env) ==
    IF s._dims = None
    THEN Bind(xarray_dask_data(pl, s, env), LAMBDA a :
         Bind(shape(pl, a.self, env), LAMBDA b :
             LET d == Dimensions(AxisNames(a.ret), b.ret)
             IN  IF d.exc # NoExc THEN Raise(b.self, d.exc)
                 ELSE Ok([b.self EXCEPT !._dims = d.ret], d.ret)))
    ELSE Ok(s, s._dims)

\* attrs[METADATA_PROCESSED] or attrs[METADATA_UNPROCESSED] of the lazy view
Attrs(a) == [kind |-> "Metadata", scene |-> a.scene, level |-> a.level]

metadata(pl, s, env) ==
    IF s._metadata = None
    THEN Bind(xarray_dask_data(pl, s, env), LAMBDA a :
             Ok([a.self EXCEPT !._metadata = Attrs(a.ret)], Attrs(a.ret)))
    ELSE Ok(s, s._metadata)

PixelSizes(z, y, x) == [kind |-> "PhysicalPixelSizes", Z |-> z, Y |-> y, X |-> x]

\* the base property returns (None, None, None) and caches nothing; a plugin
\* that overrides it keeps the value it read in _physical_pixel_sizes
physical_pixel_sizes(pl, s) ==
    IF ~pl.caches_pps
    THEN Ok(s, PixelSizes(None, None, None))
    ELSE IF s._physical_pixel_sizes = None
         THEN LET v == [PixelSizes(None, 1, 1) EXCEPT
                            !.kind = "PhysicalPixelSizes",
                            !.Z = [kind |-> "float",
                                   scene |-> s._current_scene_index,
                                   level |-> s._current_resolution_level]]
              IN  Ok([s EXCEPT !._physical_pixel_sizes = v], v)
         ELSE Ok(s, s._physical_pixel_sizes)

(***************************************************************************)
(* Accessors derived from the lazy view                                    *)
(***************************************************************************)
\* list(self.xarray_dask_data[DimensionNames.Channel].values): the
\* coordinate labels along the channel axis
ChannelCoords(a) ==
    LET c == CHOOSE i \in 1..Len(a.dims) : a.dims[i] = "C"
    IN  [kind |-> "list", items |-> [i \in 1..a.shape[c] |-> i - 1]]

channel_names(pl, s, env) ==
    Bind(xarray_dask_data(pl, s, env), LAMBDA a :
        IF InTuple("C", a.ret.dims)
        THEN Bind(xarray_dask_data(pl, a.self, env), LAMBDA b :
                 Ok(b.self, ChannelCoords(b.ret)))
        ELSE Ok(a.self, None))

\* transforms.reshape_data.  kwargs maps axis labels to selectors: an int
\* [k |-> "int", i |-> n] collapses its axis and must not be an axis of
\* return_dims, a list, tuple, range or slice [k |-> ..., idx |-> indices]
\* keeps its axis and must be one.  The result has the axes of return_dims
\* in that order: an axis the data lacks is inserted with size 1, an axis of
\* the data that return_dims lacks is taken at the selected index or at 0.
\* take lists, for each axis of the data, the indices taken of it
reshape_data(array, given_dims, return_dims, kwargs) ==
    IF \E axis \in DOMAIN kwargs :
           (kwargs[axis].k = "int") = InTuple(axis, return_dims)
    THEN [exc |-> Exc("InvalidDimensionSelector", "reshape_data"),
          ret |-> None]
    ELSE LET take == [j \in 1..Len(given_dims) |->
                         IF given_dims[j] \in DOMAIN kwargs
                         THEN IF kwargs[given_dims[j]].k = "int"
                              THEN <<kwargs[given_dims[j]].i>>
                              ELSE kwargs[given_dims[j]].idx
                         ELSE IF InTuple(given_dims[j], return_dims)
                         THEN [n \in 1..array.shape[j] |-> n - 1]
                         ELSE <<0>>]
         IN  [exc |-> NoExc,
              ret |-> [kind |-> "Array",
                       backing |-> array.backing,
                       source |-> array,
                       given |-> given_dims,
                       take |-> take,
                       dims |-> return_dims,
                       shape |-> [i \in 1..Len(return_dims) |->
                                     IF InTuple(return_dims[i], given_dims)
                                     THEN Len(take[TupleIndex(given_dims,
                                                              return_dims[i])
                                                   + 1])
                                     ELSE 1]]]

RECURSIVE Element(_, _)
\* array[idx]: the element of the image a primitive read is known by its
\* scene, level and place; the element of a reshaped array is the element
\* of its source at the indices taken
Element(a, idx) ==
    IF a.kind = "DataArray"
    THEN <<PyIndex(a.scene, Len(scenes)), a.level, idx>>
    ELSE Element(a.source,
                 [j \in 1..Len(a.given) |->
                     a.take[j][(IF InTuple(a.given[j], a.dims)
                                THEN idx[TupleIndex(a.dims, a.given[j]) + 1]
                                ELSE 0) + 1]])

\* get_image_dask_data that hands out the data as it is, in whatever order
\* it is asked for
get_image_dask_data_as_it_is(pl, s, env, dimension_order_out, kwargs) ==
    IF dimension_order_out = None
    THEN dask_data(pl, s, env)
    ELSE Bind(dask_data(pl, s, env), LAMBDA a :
         Bind(dims(pl, a.self, env), LAMBDA d : Ok(d.self, a.ret)))

get_image_dask_data(pl, s, env, dimension_order_out, kwargs) ==
    IF dimension_order_out = None
    THEN dask_data(pl, s, env)
    ELSE Bind(dask_data(pl, s, env), LAMBDA a :
         Bind(dims(pl, a.self, env), LAMBDA d :
             [self |-> d.self,
              exc |-> reshape_data(a.ret, d.ret.order, dimension_order_out.v,
                                   kwargs).exc,
              ret |-> reshape_data(a.ret, d.ret.order, dimension_order_out.v,
                                   kwargs).ret]))

\* get_image_data that does not hand the selectors on to reshape_data
get_image_data_drops_kwargs(pl, s, env, dimension_order_out, kwargs) ==
    IF dimension_order_out = None
    THEN data(pl, s, env)
    ELSE Bind(data(pl, s, env), LAMBDA a :
         Bind(dims(pl, a.self, env), LAMBDA d :
             [self |-> d.self,
              exc |-> NoExc,
              ret |-> reshape_data(a.ret, d.ret.order, dimension_order_out.v,
                                   <<>>).ret]))

get_image_data(pl, s, env, dimension_order_out, kwargs) ==
    IF dimension_order_out = None
    THEN data(pl, s, env)
    ELSE Bind(data(pl, s, env), LAMBDA a :
         Bind(dims(pl, a.self, env), LAMBDA d :
             [self |-> d.self,
              exc |-> reshape_data(a.ret, d.ret.order, dimension_order_out.v,
                                   kwargs).exc,
              ret |-> reshape_data(a.ret, d.ret.order, dimension_order_out.v,
                                   kwargs).ret]))

(***************************************************************************)
(* Stacks of scenes                                                        *)
(***************************************************************************)
RECURSIVE ReadScenes(_, _, _, _, _, _)
\* for scene in scenes: set_scene(scene); acc.append(getattr(self, mode))
ReadScenes(pl, s, env, mode, ids, acc) ==
    IF ids = <<>> THEN Ok(s, acc)
    ELSE Bind(set_scene(s, StrArg(Head(ids))), LAMBDA a :
         Bind(CASE mode = "data" -> data(pl, a.self, env)
                [] mode = "dask_data" -> dask_data(pl, a.self, env)
                [] mode = "xarray_data" -> xarray_data(pl, a.self, env)
                [] OTHER -> xarray_dask_data(pl, a.self, env),
              LAMBDA b :
                  ReadScenes(pl, b.self, env, mode, Tail(ids),
                             Append(acc, b.ret))))

\* transforms.generate_stack: the view of each scene of the reader, read
\* with that scene current, along a new leading axis; the scenes must agree
\* in shape, and the first gives the stack its coordinates.  The modes
\* xarray_data and xarray_dask_data of get_xarray_stack and
\* get_xarray_dask_stack read the same two views as data and dask_data
generate_stack(pl, s, env, mode) ==
    Bind(ReadScenes(pl, s, env, mode, scenes, <<>>), LAMBDA r :
        IF \E i \in 1..Len(r.ret) : r.ret[i].shape # r.ret[1].shape
        THEN Raise(r.self, Exc("InconsistentShapeError", "generate_stack"))
        ELSE Ok(r.self, [kind |-> "Stack",
                         mode |-> mode,
                         entries |-> r.ret,
                         coords |-> r.ret[1],
                         dims |-> <<"I">> \o r.ret[1].dims,
                         shape |-> <<Len(r.ret)>> \o r.ret[1].shape]))

get_stack(pl, s, env) == generate_stack(pl, s, env, "data")

get_dask_stack(pl, s, env) == generate_stack(pl, s, env, "dask_data")

(***************************************************************************)
(* Mosaic views                                                            *)
(***************************************************************************)
\* the stitched array: the tile axis is gone, Y and X span the whole mosaic
Stitched(a) ==
    [a EXCEPT !.dims = Tail(a.dims),
              !.shape = [i \in 1..(Len(a.shape) - 1) |->
                            IF i >= Len(a.shape) - 2
                            THEN 2 * a.shape[i + 1] ELSE a.shape[i + 1]]]

StitchPrimitive(pl, s, env, origin, backing) ==
    IF pl.stitch
    THEN Bind(PluginRead(pl, s, env, origin, backing), LAMBDA r :
             Ok(r.self, Stitched(r.ret)))
    ELSE Raise(s, Exc("NotImplementedError", origin))

\* _get_stitched_dask_mosaic that hands out the unstitched tiles of a
\* plugin without a stitch primitive
_get_stitched_dask_mosaic_fallback(pl, s, env) ==
    PluginRead(pl, s, env, "_get_stitched_dask_mosaic", "dask")

_get_stitched_dask_mosaic(pl, s, env) ==
    StitchPrimitive(pl, s, env, "_get_stitched_dask_mosaic", "dask")

_get_stitched_mosaic(pl, s, env) ==
    StitchPrimitive(pl, s, env, "_get_stitched_mosaic", "numpy")

mosaic_xarray_dask_data(pl, s, env) ==
    Bind(dims(pl, s, env), LAMBDA d :
        IF ~InTuple("M", d.ret.order)
        THEN Raise(d.self, Exc("InvalidDimensionOrderingError",
                               "cannot create stitched mosaic without tiles"))
        ELSE IF d.self._mosaic_xarray_dask_data = None
        THEN Bind(_get_stitched_dask_mosaic(pl, d.self, env), LAMBDA r :
                 Ok([r.self EXCEPT !._mosaic_xarray_dask_data = r.ret], r.ret))
        ELSE Ok(d.self, d.self._mosaic_xarray_dask_data))

\* mosaic_xarray_data that stitches without looking for the tile axis
mosaic_xarray_data_unguarded(pl, s, env) ==
    LET d == dims(pl, s, env)
    IN  IF d.exc # NoExc THEN d
        ELSE IF d.self._mosaic_xarray_data = None
        THEN LET r == _get_stitched_mosaic(pl, d.self, env)
             IN  IF r.exc # NoExc THEN r
                 ELSE Ok([r.self EXCEPT !._mosaic_xarray_data = r.ret], r.ret)
        ELSE Ok(d.self, d.self._mosaic_xarray_data)

mosaic_xarray_data(pl, s, env) ==
    Bind(dims(pl, s, env), LAMBDA d :
        IF ~InTuple("M", d.ret.order)
        THEN Raise(d.self, Exc("InvalidDimensionOrderingError",
                               "cannot create stitched mosaic without tiles"))
        ELSE IF d.self._mosaic_xarray_data = None
        THEN Bind(_get_stitched_mosaic(pl, d.self, env), LAMBDA r :
                 Ok([r.self EXCEPT !._mosaic_xarray_data = r.ret], r.ret))
        ELSE Ok(d.self, d.self._mosaic_xarray_data))

\* mosaic_tile_dims without the test for the tile axis
mosaic_tile_dims_without_test(pl, s, env) ==
    Bind(dims(pl, s, env), LAMBDA d :
        Ok(d.self,
           Dimensions(PyStr(<<"Y", "X">>),
                      <<__getattr__(d.ret, "Y").ret,
                        __getattr__(d.ret, "X").ret>>).ret))

mosaic_tile_dims(pl, s, env) ==
    Bind(dims(pl, s, env), LAMBDA d :
        IF InTuple("M", d.ret.order)
        THEN LET y == __getattr__(d.ret, "Y")
                 x == __getattr__(d.ret, "X")
             IN  IF y.exc # NoExc THEN Raise(d.self, y.exc)
                 ELSE IF x.exc # NoExc THEN Raise(d.self, x.exc)
                 ELSE Ok(d.self,
                         Dimensions(PyStr(<<"Y", "X">>), <<y.ret, x.ret>>).ret)
        ELSE Ok(d.self, None))

mosaic_dask_data(pl, s, env) == mosaic_xarray_dask_data(pl, s, env)

mosaic_data(pl, s, env) == mosaic_xarray_data(pl, s, env)

\* the base class implements neither tile position lookup
get_mosaic_tile_position(pl, s, mosaic_tile_index) ==
    Raise(s, Exc("NotImplementedError", "get_mosaic_tile_position"))

get_mosaic_tile_positions(pl, s) ==
    Raise(s, Exc("NotImplementedError", "get_mosaic_tile_positions"))

(***************************************************************************)
(* resolution_level_dims                                                   *)
(***************************************************************************)
RECURSIVE LevelLoop(_, _, _, _, _)
\* for level in levels: set_resolution_level(level); acc[level] = shape
LevelLoop(pl, s, env, levels, acc) ==
    IF levels = <<>> THEN Ok(s, acc)
    ELSE Bind(set_resolution_level(pl, s, Head(levels)), LAMBDA a :
         Bind(shape(pl, a.self, env), LAMBDA b :
             LevelLoop(pl, b.self, env, Tail(levels),
                       (Head(levels) :> b.ret) @@ acc)))

\* resolution_level_dims that leaves the reader at the last level it visited
resolution_level_dims_no_restore(pl, s, env) ==
    LET lv == resolution_levels(pl, s)
    IN  IF lv.exc # NoExc THEN lv
        ELSE LET loop == LevelLoop(pl, s, env, lv.ret, <<>>)
             IN  IF loop.exc # NoExc THEN loop
                 ELSE Ok(loop.self, [kind |-> "dict", items |-> loop.ret])

resolution_level_dims(pl, s, env) ==
    LET initial_resolution_level == s._current_resolution_level
    IN  Bind(resolution_levels(pl, s), LAMBDA lv :
        Bind(LevelLoop(pl, s, env, lv.ret, <<>>), LAMBDA loop :
        Bind(set_resolution_level(pl, loop.self, initial_resolution_level),
             LAMBDA back :
                 Ok(back.self, [kind |-> "dict", items |-> loop.ret]))))

(***************************************************************************)
(* Standard metadata.  A metadata object is its class and its instance     *)
(* dictionary, a function from attribute names to values.                  *)
(***************************************************************************)
\* a number is [kind |-> "int", i |-> n], a truth value
\* [kind |-> "bool", b |-> b]: None is told from both by its kind
\* the fields the dataclass StandardMetadata declares, in declaration order
StandardFields ==
    <<"binning", "column", "dimensions_present", "image_size_c",
      "image_size_t", "image_size_x", "image_size_y", "image_size_z",
      "imaged_by", "imaging_date", "objective", "pixel_size_x",
      "pixel_size_y", "pixel_size_z", "position_index", "row", "timelapse",
      "timelapse_interval", "total_time_duration">>

\* StandardMetadata.FIELD_LABELS: the items of the dict, in its order
FIELD_LABELS ==
    << <<"binning", "Binning">>,
       <<"column", "Column">>,
       <<"dimensions_present", "Dimensions Present">>,
       <<"image_size_c", "Image Size C">>,
       <<"image_size_t", "Image Size T">>,
       <<"image_size_x", "Image Size X">>,
       <<"image_size_y", "Image Size Y">>,
       <<"image_size_z", "Image Size Z">>,
       <<"imaged_by", "Imaged By">>,
       <<"imaging_date", "Imaging Date">>,
       <<"objective", "Objective">>,
       <<"pixel_size_x", "Pixel Size X">>,
       <<"pixel_size_y", "Pixel Size Y">>,
       <<"pixel_size_z", "Pixel Size Z">>,
       <<"position_index", "Position Index">>,
       <<"row", "Row">>,
       <<"timelapse", "Timelapse">>,
       <<"timelapse_interval", "Timelapse Interval">>,
       <<"total_time_duration", "Total Time Duration">> >>

\* the __init__ the dataclass decorator generates: one keyword parameter per
\* declared field, each with the default None; any other keyword is a
\* TypeError
StandardMetadata(kwargs) ==
    IF \E k \in DOMAIN kwargs : ~InTuple(k, StandardFields)
    THEN [exc |-> Exc("TypeError", "unexpected keyword argument"),
          ret |-> None]
    ELSE [exc |-> NoExc,
          ret |-> [kind |-> "StandardMetadata",
                   dict |-> [f \in {StandardFields[i] :
                                          i \in 1..Len(StandardFields)} |->
                                IF f \in DOMAIN kwargs THEN kwargs[f]
                                ELSE None]]]

\* to_dict that leaves out the fields without a value
to_dict_skips_none(m) ==
    SelectSeq([i \in 1..Len(FIELD_LABELS) |->
                  <<FIELD_LABELS[i][2], m.dict[FIELD_LABELS[i][1]]>>],
              LAMBDA item : item[2] # None)

\* to_dict: {self.FIELD_LABELS[field]: getattr(self, field) for field in
\* self.FIELD_LABELS}, the items of the dict in its order
to_dict(m) ==
    [i \in 1..Len(FIELD_LABELS) |->
        <<FIELD_LABELS[i][2], m.dict[FIELD_LABELS[i][1]]>>]

\* the names of the MetadataField descriptors of the body of
\* EmbeddedMetadata, each with its label, in the order of the class body
FieldNames ==
    LET fields ==
        << <<"dimensions_present", "Dimensions Present">>,
           <<"image_size_c", "Image Size C">>,
           <<"image_size_t", "Image Size T">>,
           <<"image_size_x", "Image Size X">>,
           <<"image_size_y", "Image Size Y">>,
           <<"image_size_z", "Image Size Z">>,
           <<"pixel_size_x", "Pixel Size X">>,
           <<"pixel_size_y", "Pixel Size Y">>,
           <<"pixel_size_z", "Pixel Size Z">>,
           <<"timelapse", "Timelapse">>,
           <<"objective", "Objective">>,
           <<"binning", "Binning">>,
           <<"column", "Column">>,
           <<"imaged_by", "Imaged By">>,
           <<"imaging_date", "Imaging Date">>,
           <<"position_index", "Position Index">>,
           <<"row", "Row">>,
           <<"total_time_duration", "Total Time Duration">>,
           <<"well", "Well">>,
           <<"mosaic_tile", "Mosaic Tile">> >>
    IN  {fields[i][1] : i \in 1..Len(fields)}

\* _compute_allowed_fields(EmbeddedMetadata): every descriptor name and its
\* private name, which __set_name__ makes of "_" and the name
_allowed_fields == FieldNames \cup {"_" \o n : n \in FieldNames}

\* cls(): an instance with an empty dictionary
EmbeddedMetadata == [kind |-> "EmbeddedMetadata", dict |-> <<>>]

\* MetadataField.__get__ on an instance
__get__(m, name) ==
    IF ("_" \o name) \in DOMAIN m.dict THEN m.dict["_" \o name]
    ELSE None

\* instance.__dict__[key] = value
Store(m, key, value) ==
    [m EXCEPT !.dict = [k \in DOMAIN @ \cup {key} |->
                            IF k = key THEN value ELSE @[k]]]

\* setattr(m, name, value).  EmbeddedMetadata.__setattr__ lets only the
\* allowed names through to object.__setattr__, which hands the name of a
\* descriptor of the class to its __set__, to be stored under the private
\* name, and stores any other name in the instance dictionary.  The dataclass StandardMetadata defines no
\* __setattr__ and no __slots__: object.__setattr__ stores any name
__setattr__(m, name, value) ==
    IF m.kind = "EmbeddedMetadata"
    THEN IF name \notin _allowed_fields
         THEN [exc |-> Exc("AttributeError",
                           "only predefined fields are allowed"),
               obj |-> m]
         ELSE IF name \in FieldNames
         THEN [exc |-> NoExc, obj |-> Store(m, "_" \o name, value)]
         ELSE [exc |-> NoExc, obj |-> Store(m, name, value)]
    ELSE [exc |-> NoExc, obj |-> Store(m, name, value)]

RECURSIVE SetAll(_, _)
\* meta.name = value for each pair <<name, value>> in turn
SetAll(m, pairs) ==
    IF pairs = <<>> THEN [exc |-> NoExc, obj |-> m]
    ELSE IF __setattr__(m, Head(pairs)[1], Head(pairs)[2]).exc # NoExc
    THEN __setattr__(m, Head(pairs)[1], Head(pairs)[2])
    ELSE SetAll(__setattr__(m, Head(pairs)[1], Head(pairs)[2]).obj,
                Tail(pairs))

\* getattr(dims, name, None): the size of the axis, None without the axis
getattr_or_None(d, name) ==
    IF __getattr__(d, name).exc = NoExc
    THEN [kind |-> "int", i |-> __getattr__(d, name).ret]
    ELSE None

\* image_size_t is not None and image_size_t > 0
IsTimelapse(image_size_t) ==
    [kind |-> "bool", b |-> image_size_t.kind # "None" /\ image_size_t.i > 0]

\* the assignments of from_reader from dimensions_present to mosaic_tile
SizesOf(d) ==
    SetAll(EmbeddedMetadata,
        << <<"dimensions_present", PyStr(d.order)>>,
           <<"image_size_c", getattr_or_None(d, "C")>>,
           <<"image_size_t", getattr_or_None(d, "T")>>,
           <<"image_size_x", getattr_or_None(d, "X")>>,
           <<"image_size_y", getattr_or_None(d, "Y")>>,
           <<"image_size_z", getattr_or_None(d, "Z")>>,
           <<"mosaic_tile", getattr_or_None(d, "M")>> >>).obj

\* EmbeddedMetadata.from_reader
from_reader(pl, s, env) ==
    Bind(dims(pl, s, env), LAMBDA d :
    Bind(physical_pixel_sizes(pl, d.self), LAMBDA pps :
        Ok(pps.self,
           SetAll(SizesOf(d.ret),
               << <<"timelapse",
                    IsTimelapse(__get__(SizesOf(d.ret), "image_size_t"))>>,
                  <<"pixel_size_x", pps.ret.X>>,
                  <<"pixel_size_y", pps.ret.Y>>,
                  <<"pixel_size_z", pps.ret.Z>> >>).obj)))

\* the base class knows no time interval
time_interval(pl, s) == Ok(s, None)

\* the keyword arguments Reader.standard_metadata hands to StandardMetadata.
\* The readers modelled leave ome_metadata to the base class, which raises
\* NotImplementedError: ome is None and so is every field derived from it
StandardKwargs(d, pps, interval) ==
    [dimensions_present |-> PyStr(d.order),
     image_size_c |-> getattr_or_None(d, "C"),
     image_size_t |-> getattr_or_None(d, "T"),
     image_size_x |-> getattr_or_None(d, "X"),
     image_size_y |-> getattr_or_None(d, "Y"),
     image_size_z |-> getattr_or_None(d, "Z"),
     timelapse |-> IsTimelapse(getattr_or_None(d, "T")),
     pixel_size_x |-> pps.X,
     pixel_size_y |-> pps.Y,
     pixel_size_z |-> pps.Z,
     binning |-> None,
     imaged_by |-> None,
     imaging_datetime |-> None,
     objective |-> None,
     timelapse_interval |-> interval,
     total_time_duration |-> None]

\* Reader.standard_metadata: the arguments are evaluated, then the
\* constructor is called and what it makes or raises is the outcome
standard_metadata(pl, s, env) ==
    Bind(dims(pl, s, env), LAMBDA d :
    Bind(physical_pixel_sizes(pl, d.self), LAMBDA pps :
        [self |-> pps.self,
         exc |-> StandardMetadata(
                     StandardKwargs(d.ret, pps.ret,
                                    time_interval(pl, pps.self).ret)).exc,
         ret |-> StandardMetadata(
                     StandardKwargs(d.ret, pps.ret,
                                    time_interval(pl, pps.self).ret)).ret]))

(***************************************************************************)
(* Actions                                                                 *)
(***************************************************************************)
SceneArgs == {IntArg(i) : i \in (0 - NumScenes - 1)..NumScenes}
                 \cup {StrArg(scenes[i]) : i \in 1..Len(scenes)}
                 \cup {StrArg("Z")}

LevelArgs == (0 - 1)..NumLevels

\* the sets of primitives that may raise during one call
Envs(prims) == SUBSET prims

\* the views whose returned objects the history follows
NothingReturned == [v \in {"xarray_data"} |-> None]

\* last is the history of the latest call: the method, its argument, the
\* exception it raised, the value it returned, the number of scene or level
\* assignments it made, and the object and the returned views before it.
\* returned keeps, for every view, the object the latest successful request
\* returned since the scene or the level was last assigned.
Record(op, arg, r) ==
    /\ reader' = [r.self EXCEPT !._switches = 0]
    /\ last' = [op |-> op, arg |-> arg, exc |-> r.exc, ret |-> r.ret,
                switches |-> r.self._switches, pre |-> reader,
                before |-> returned]
    /\ returned' = IF r.self._switches > 0 THEN NothingReturned
                   ELSE IF op \in DOMAIN returned /\ r.exc = NoExc
                   THEN [returned EXCEPT ![op] = r.ret]
                   ELSE returned
    /\ UNCHANGED <<plugin, dimcall, metacall, second, frame>>

\* the history of the latest call on a Dimensions: the method, its
\* arguments, the exception it raised, the value it returned and the object
NoDimCall == [op |-> "none", dims |-> None, shape |-> None, key |-> None,
              exc |-> NoExc, ret |-> None, obj |-> None]

\* the history of the latest call on a metadata object: the method, the
\* name and the value assigned, the exception raised, the value returned,
\* the object before and after, and the number of assignments so far
NoMetaCall == [op |-> "none", name |-> "-", value |-> None, exc |-> NoExc,
               ret |-> None, pre |-> None, obj |-> None, n |-> 0]

\* second is another Reader instance.  frame holds the calls in progress
\* when two threads share the reader: the lazy-view request of one thread,
\* at the test of the cache (idle), after a miss, or after the read with the
\* array it holds; the set_scene of the other thread, before or after the
\* assignment of the index; raced tells whether a step of one call was
\* ever taken while the other call was in progress
Idle == [fill |-> [pc |-> "idle", local |-> None],
         switch |-> [pc |-> "idle"],
         raced |-> FALSE]

Init ==
    /\ plugin \in Plugins
    /\ dimcall = NoDimCall
    /\ metacall = NoMetaCall
    /\ reader = ClassDefaults
    /\ last = [op |-> "__init__", arg |-> NoArg, exc |-> NoExc, ret |-> None,
               switches |-> 0, pre |-> ClassDefaults,
               before |-> NothingReturned]
    /\ returned = NothingReturned
    /\ second = ClassDefaults
    /\ frame = Idle

SetScene ==
    \E a \in SceneArgs : Record("set_scene", a, set_scene(reader, a))

SetResolutionLevel ==
    \E l \in LevelArgs :
        Record("set_resolution_level", IntArg(l),
               set_resolution_level(plugin, reader, l))

XarrayDaskData ==
    \E env \in Envs({"_read_delayed"}) :
        Record("xarray_dask_data", NoArg,
               xarray_dask_data(plugin, reader, env))

XarrayData ==
    \E env \in Envs({"_read_immediate"}) :
        Record("xarray_data", NoArg, xarray_data(plugin, reader, env))

DimsAccess ==
    \E env \in Envs({"_read_delayed"}) :
        Record("dims", NoArg, dims(plugin, reader, env))

ShapeAccess ==
    \E env \in Envs({"_read_delayed"}) :
        Record("shape", NoArg, shape(plugin, reader, env))

MetadataAccess ==
    \E env \in Envs({"_read_delayed"}) :
        Record("metadata", NoArg, metadata(plugin, reader, env))

PhysicalPixelSizesAccess ==
    Record("physical_pixel_sizes", NoArg,
           physical_pixel_sizes(plugin, reader))

MosaicXarrayDaskData ==
    \E env \in Envs({"_get_stitched_dask_mosaic"}) :
        Record("mosaic_xarray_dask_data", NoArg,
               mosaic_xarray_dask_data(plugin, reader, env))

MosaicXarrayData ==
    \E env \in Envs({"_get_stitched_mosaic"}) :
        Record("mosaic_xarray_data", NoArg,
               mosaic_xarray_data(plugin, reader, env))

ResolutionLevelDims ==
    \E env \in Envs({"_read_delayed"}) :
        Record("resolution_level_dims", NoArg,
               resolution_level_dims(plugin, reader, env))

DaskData ==
    \E env \in Envs({"_read_delayed"}) :
        Record("dask_data", NoArg, dask_data(plugin, reader, env))

DtypeAccess ==
    \E env \in Envs({"_read_delayed"}) :
        Record("dtype", NoArg, dtype(plugin, reader, env))

ChannelNames ==
    \E env \in Envs({"_read_delayed"}) :
        Record("channel_names", NoArg, channel_names(plugin, reader, env))

GetImageDaskData ==
    \E env \in Envs({"_read_delayed"}),
       order \in {None, PyStr(<<"Z", "Y", "X">>), PyStr(<<"C", "Y", "X">>)} :
        Record("get_image_dask_data", order,
               get_image_dask_data(plugin, reader, env, order, <<>>))

MosaicTileDims ==
    \E env \in Envs({"_read_delayed"}) :
        Record("mosaic_tile_dims", NoArg,
               mosaic_tile_dims(plugin, reader, env))

MosaicDaskData ==
    \E env \in Envs({"_get_stitched_dask_mosaic"}) :
        Record("mosaic_dask_data", NoArg,
               mosaic_dask_data(plugin, reader, env))

MosaicData ==
    \E env \in Envs({"_get_stitched_mosaic"}) :
        Record("mosaic_data", NoArg, mosaic_data(plugin, reader, env))

GetMosaicTilePosition ==
    \E i \in 0..1 :
        Record("get_mosaic_tile_position", IntArg(i),
               get_mosaic_tile_position(plugin, reader, i))

GetMosaicTilePositions ==
    Record("get_mosaic_tile_positions", NoArg,
           get_mosaic_tile_positions(plugin, reader))

Next ==
    \/ SetScene
    \/ SetResolutionLevel
    \/ XarrayDaskData
    \/ XarrayData
    \/ DimsAccess
    \/ ShapeAccess
    \/ MetadataAccess
    \/ PhysicalPixelSizesAccess
    \/ MosaicXarrayDaskData
    \/ MosaicXarrayData
    \/ ResolutionLevelDims
    \/ DaskData
    \/ DtypeAccess
    \/ ChannelNames
    \/ GetImageDaskData
    \/ MosaicTileDims
    \/ MosaicDaskData
    \/ MosaicData
    \/ GetMosaicTilePosition
    \/ GetMosaicTilePositions

Spec == Init /\ [][Next]_vars

(***************************************************************************)
(* A Dimensions object on its own: constructed once from any dims and      *)
(* shape, then looked up with any key                                      *)
(***************************************************************************)
Labels == {"Z", "Y", "X"}

\* the sequences over S of length at most n
SeqsUpTo(S, n) == UNION {[1..k -> S] : k \in 0..n}

\* the dims and the keys given as a str, and as a collection of strs
StrArgs == {PyStr(x) : x \in SeqsUpTo(Labels, MaxRank)}

\* the members of a collection are the strs of one label, and two that are
\* not
TupleArgs ==
    {PyTuple(x) :
        x \in SeqsUpTo({<<c>> : c \in Labels} \cup {<<>>, <<"Y", "X">>},
                       MaxRank)}

ShapeArgs == SeqsUpTo(1..MaxSize, MaxRank)

DimInit ==
    /\ plugin = PluginOf("default", "none", FALSE, FALSE)
    /\ reader = ClassDefaults
    /\ last = [op |-> "__init__", arg |-> NoArg, exc |-> NoExc, ret |-> None,
               switches |-> 0, pre |-> ClassDefaults,
               before |-> NothingReturned]
    /\ returned = NothingReturned
    /\ second = ClassDefaults
    /\ frame = Idle
    /\ dimcall = NoDimCall
    /\ metacall = NoMetaCall

Constructed(d, shp) ==
    [op |-> "__init__", dims |-> d, shape |-> shp, key |-> None,
     exc |-> Dimensions(d, shp).exc, ret |-> None,
     obj |-> Dimensions(d, shp).ret]

Construct ==
    /\ dimcall.op = "none"
    /\ \/ \E d \in StrArgs, shp \in ShapeArgs : dimcall' = Constructed(d, shp)
       \/ \E d \in TupleArgs, shp \in ShapeArgs :
              dimcall' = Constructed(d, shp)
    /\ UNCHANGED <<reader, plugin, last, returned, metacall, second, frame>>

GetItem ==
    LET LookedUp(d, key) ==
            [op |-> "__getitem__", dims |-> None, shape |-> None,
             key |-> key, exc |-> __getitem__(d, key).exc,
             ret |-> __getitem__(d, key).ret, obj |-> d]
    IN  /\ dimcall.op = "__init__"
        /\ dimcall.obj # None
        /\ \/ \E key \in StrArgs : dimcall' = LookedUp(dimcall.obj, key)
           \/ \E key \in TupleArgs : dimcall' = LookedUp(dimcall.obj, key)
           \* a key that is neither a str nor a sequence of strs
           \/ dimcall' = LookedUp(dimcall.obj, [t |-> "int", v |-> <<>>])
        /\ UNCHANGED <<reader, plugin, last, returned, metacall, second, frame>>

\* a reference to an object: two references are the same object when their
\* ids are
Ref(id, d) == [id |-> id, obj |-> d]

\* self == other: Dimensions defines no __eq__, so the comparison is the one
\* of object, which tells whether the two are the same object
__eq__(self, other) == self.id = other.id

\* the object is compared with itself, or with a Dimensions constructed
\* separately from any dims and shape
Equals ==
    LET Compared(d, other) ==
            [op |-> "__eq__", dims |-> None, shape |-> None, key |-> other,
             exc |-> NoExc, ret |-> __eq__(Ref(0, d), other), obj |-> d]
    IN  /\ dimcall.op = "__init__"
        /\ dimcall.obj # None
        /\ \/ dimcall' = Compared(dimcall.obj, Ref(0, dimcall.obj))
           \/ \E d \in StrArgs, shp \in ShapeArgs :
                  /\ Dimensions(d, shp).exc = NoExc
                  /\ dimcall' = Compared(dimcall.obj,
                                         Ref(1, Dimensions(d, shp).ret))
        /\ UNCHANGED <<reader, plugin, last, returned, metacall, second, frame>>

DimNext ==
    \/ Construct
    \/ GetItem
    \/ Equals

DimSpec == DimInit /\ [][DimNext]_vars

(***************************************************************************)
(* The standard metadata of a reader: the reader of a format is switched   *)
(* between its scenes and levels and asked for its metadata                *)
(***************************************************************************)
\* formats with all five axes, with the two of a plane only, without the
\* spatial axes, and one with levels, tiles and pixel sizes
MetaInit ==
    /\ plugin \in
           {PluginOf("default", "none", FALSE, FALSE),
            [PluginOf("default", "none", FALSE, FALSE)
                EXCEPT !.axes = <<"Y", "X">>],
            [PluginOf("default", "none", FALSE, TRUE)
                EXCEPT !.axes = <<"T", "C">>],
            PluginOf("pyramid", "odd", TRUE, TRUE)}
    /\ dimcall = NoDimCall
    /\ metacall = NoMetaCall
    /\ reader = ClassDefaults
    /\ last = [op |-> "__init__", arg |-> NoArg, exc |-> NoExc, ret |-> None,
               switches |-> 0, pre |-> ClassDefaults,
               before |-> NothingReturned]
    /\ returned = NothingReturned
    /\ second = ClassDefaults
    /\ frame = Idle

StandardMetadataAccess ==
    \E env \in Envs({"_read_delayed"}) :
        Record("standard_metadata", NoArg,
               standard_metadata(plugin, reader, env))

FromReader ==
    \E env \in Envs({"_read_delayed"}) :
        Record("from_reader", NoArg, from_reader(plugin, reader, env))

MetaNext ==
    \/ SetScene
    \/ SetResolutionLevel
    \/ StandardMetadataAccess
    \/ FromReader

MetaSpec == MetaInit /\ [][MetaNext]_vars

(***************************************************************************)
(* A metadata object on its own: constructed, then assigned to and         *)
(* exported                                                                *)
(***************************************************************************)
\* the most assignments made to one object
MaxAssign == 2

\* StandardMetadata(): without keywords, with the size and the timelapse of
\* 1 and of 5 frames, with the keyword Reader.standard_metadata names the
\* imaging date by
NewStandardMetadata ==
    /\ metacall.op = "none"
    /\ \/ \E kw \in {<<>>, [imaging_datetime |-> None]} :
              metacall' = [NoMetaCall EXCEPT
                              !.op = "__init__",
                              !.exc = StandardMetadata(kw).exc,
                              !.obj = StandardMetadata(kw).ret]
       \/ \E t \in {1, 5} :
              metacall' = [NoMetaCall EXCEPT
                              !.op = "__init__",
                              !.obj = StandardMetadata(
                                  [image_size_t |-> [kind |-> "int", i |-> t],
                                   timelapse |->
                                       IsTimelapse([kind |-> "int",
                                                    i |-> t])]).ret]
    /\ UNCHANGED <<reader, plugin, last, returned, dimcall, second, frame>>

NewEmbeddedMetadata ==
    /\ metacall.op = "none"
    /\ metacall' = [NoMetaCall EXCEPT !.op = "__init__",
                                      !.obj = EmbeddedMetadata]
    /\ UNCHANGED <<reader, plugin, last, returned, dimcall, second, frame>>

\* names assigned: a field of both classes, one of EmbeddedMetadata only,
\* one of StandardMetadata only, a private name, and two of neither
SetAttr ==
    /\ metacall.obj # None
    /\ metacall.n < MaxAssign
    /\ \E name \in {"objective", "well", "timelapse_interval", "_objective",
                     "imaging_datetime", "scene"},
          value \in {None, PyStr(<<"4", "0", "x">>)} :
           metacall' =
               [op |-> "__setattr__", name |-> name, value |-> value,
                exc |-> __setattr__(metacall.obj, name, value).exc,
                ret |-> None, pre |-> metacall.obj,
                obj |-> __setattr__(metacall.obj, name, value).obj,
                n |-> metacall.n + 1]
    /\ UNCHANGED <<reader, plugin, last, returned, dimcall, second, frame>>

ToDict ==
    /\ metacall.obj # None
    /\ metacall.obj.kind = "StandardMetadata"
    /\ metacall.op # "to_dict"
    /\ metacall' = [metacall EXCEPT !.op = "to_dict", !.name = "-",
                                    !.value = None, !.exc = NoExc,
                                    !.ret = to_dict(metacall.obj),
                                    !.pre = metacall.obj]
    /\ UNCHANGED <<reader, plugin, last, returned, dimcall, second, frame>>

RecordNext ==
    \/ NewStandardMetadata
    \/ NewEmbeddedMetadata
    \/ SetAttr
    \/ ToDict

RecordSpec == MetaInit /\ [][RecordNext]_vars

(***************************************************************************)
(* The reshaped data of a reader: the reader of a format is switched       *)
(* between its scenes and levels and asked for its data in an output order *)
(* with selectors, which is then reshaped back to the native order, and    *)
(* for the stack of its scenes                                             *)
(***************************************************************************)
\* the output orders requested: none, permutations of the native orders of
\* the formats, and an order that drops and inserts axes
DataOrders ==
    {None, PyStr(<<"X", "Y">>), PyStr(<<"Z", "Y", "X">>),
     PyStr(<<"X", "Y", "Z", "C", "T">>),
     PyStr(<<"X", "Y", "Z", "C", "T", "M">>)}

\* no selector, or one for an axis of the image at the current scene: an
\* index, or a list, a tuple, a range or a slice by the indices it stands
\* for
Kwargs(pl, s) ==
    {<<>>} \cup
    {kw \in {("C" :> [k |-> "int", i |-> 0]),
             ("Y" :> [k |-> "int", i |-> 1])}
            \cup {("C" :> [k |-> "list", idx |-> <<1, 0>>]),
                  ("Y" :> [k |-> "tuple", idx |-> <<0>>]),
                  ("Y" :> [k |-> "range", idx |-> <<0, 1>>]),
                  ("Y" :> [k |-> "slice", idx |-> <<1>>])} :
        \A axis \in DOMAIN kw :
            InTuple(axis, SceneOrder(pl, PyIndex(s._current_scene_index,
                                                Len(scenes))))}

GetImageDataSelecting ==
    \E env \in Envs({"_read_immediate"}), order \in DataOrders,
       kw \in Kwargs(plugin, reader) :
        Record("get_image_data", [order |-> order, kwargs |-> kw],
               get_image_data(plugin, reader, env, order, kw))

GetImageDaskDataSelecting ==
    \E env \in Envs({"_read_delayed"}), order \in DataOrders,
       kw \in Kwargs(plugin, reader) :
        Record("get_image_dask_data", [order |-> order, kwargs |-> kw],
               get_image_dask_data(plugin, reader, env, order, kw))

\* transforms.reshape_data(data, given_dims=order, return_dims=dims.order)
\* on the array the reader handed out in the order asked for, which names
\* each axis of it
ReshapeBack ==
    /\ last.op \in {"get_image_data", "get_image_dask_data"}
    /\ last.exc = NoExc
    /\ last.arg.order # None
    /\ Len(last.arg.order.v) = Len(last.ret.shape)
    /\ Record("reshape_data", last.arg,
              [self |-> reader,
               exc |-> reshape_data(last.ret, last.arg.order.v,
                                    reader._dims.order, <<>>).exc,
               ret |-> reshape_data(last.ret, last.arg.order.v,
                                    reader._dims.order, <<>>).ret])

GetStack ==
    \E env \in Envs({"_read_immediate"}) :
        Record("get_stack", NoArg, get_stack(plugin, reader, env))

GetDaskStack ==
    \E env \in Envs({"_read_delayed"}) :
        Record("get_dask_stack", NoArg, get_dask_stack(plugin, reader, env))

DataNext ==
    \/ SetScene
    \/ SetResolutionLevel
    \/ GetImageDataSelecting
    \/ GetImageDaskDataSelecting
    \/ ReshapeBack
    \/ GetStack
    \/ GetDaskStack

DataSpec == MetaInit /\ [][DataNext]_vars

(***************************************************************************)
(* The guessed dimension order: _guess_dim_order is asked about a shape    *)
(* and the answer is paired with that shape in a Dimensions                *)
(***************************************************************************)
DEFAULT_DIMENSION_ORDER == <<"T", "C", "Z", "Y", "X">>

\* DEFAULT_DIMENSION_ORDER[len(DEFAULT_DIMENSION_ORDER) - len(shape) :], a
\* slice: a negative start counts from the end and a start before the
\* beginning is the beginning
_guess_dim_order(shp) ==
    LET n == Len(DEFAULT_DIMENSION_ORDER)
        start == n - Len(shp)
        from == IF start >= 0 THEN start
                ELSE IF start + n >= 0 THEN start + n ELSE 0
    IN  PyStr(SubSeq(DEFAULT_DIMENSION_ORDER, from + 1, n))

GuessDimOrder ==
    /\ \E shp \in SeqsUpTo(1..MaxSize, MaxShapeLen) :
           dimcall' = [op |-> "_guess_dim_order", dims |-> None,
                       shape |-> shp, key |-> None, exc |-> NoExc,
                       ret |-> _guess_dim_order(shp), obj |-> None]
    /\ UNCHANGED <<reader, plugin, last, returned, metacall, second, frame>>

\* Dimensions(guessed order, shape)
PairWithShape ==
    /\ dimcall.op = "_guess_dim_order"
    /\ dimcall' = Constructed(dimcall.ret, dimcall.shape)
    /\ UNCHANGED <<reader, plugin, last, returned, metacall, second, frame>>

GuessNext ==
    \/ GuessDimOrder
    \/ PairWithShape

GuessSpec == DimInit /\ [][GuessNext]_vars

(***************************************************************************)
(* The helpers of standard_metadata that read the OME metadata.  An OME    *)
(* object is [fault, elements]: fault is the exception its conversion to   *)
(* XML raises, or "none"; elements gives the first element at each path    *)
(* that has one.  An element is its attributes and its text: strs or None. *)
(***************************************************************************)
VALID_OBJECTIVES ==
    << <<"6", "3", "x", "/", "1", ".", "2", "W">>,
       <<"2", "0", "x", "/", "0", ".", "8">>,
       <<"4", "0", "x", "/", "1", ".", "2", "W">>,
       <<"1", "0", "0", "x", "/", "1", ".", "2", "5", "W">>,
       <<"1", "0", "0", "x", "/", "1", ".", "4", "6", "O", "i", "l">>,
       <<"4", "4", ".", "8", "3", "x", "/", "1", ".", "0", "W">>,
       <<"5", "x", "/", "0", ".", "1", "2">>,
       <<"1", "0", "x", "/", "0", ".", "4", "5">> >>

\* XML(ome_metadata.to_xml()).find(path, OME_NS)
get_metadata_element(ome_metadata, path) ==
    IF ome_metadata.fault # "none"
    THEN [exc |-> Exc(ome_metadata.fault, "to_xml"), ret |-> None]
    ELSE [exc |-> NoExc,
          ret |-> IF path \in DOMAIN ome_metadata.elements
                  THEN ome_metadata.elements[path] ELSE None]

\* binning without the try statement
binning_unguarded(ome_metadata) ==
    LET el == get_metadata_element(ome_metadata,
                                   "./Image/Pixels/Channel/DetectorSettings")
    IN  IF el.exc # NoExc THEN el
        ELSE IF el.ret # None
        THEN [exc |-> NoExc,
              ret |-> IF "Binning" \in DOMAIN el.ret.attrib
                      THEN el.ret.attrib["Binning"] ELSE None]
        ELSE [exc |-> NoExc, ret |-> None]

binning(ome_metadata) ==
    LET el == get_metadata_element(ome_metadata,
                                   "./Image/Pixels/Channel/DetectorSettings")
    IN  IF el.exc # NoExc
        THEN \* except Exception: log.warning(...)
             [exc |-> NoExc, ret |-> None]
        ELSE IF el.ret # None
        THEN [exc |-> NoExc,
              ret |-> IF "Binning" \in DOMAIN el.ret.attrib
                      THEN el.ret.attrib["Binning"] ELSE None]
        ELSE [exc |-> NoExc, ret |-> None]

imaged_by(ome_metadata) ==
    LET el == get_metadata_element(ome_metadata, "./Experimenter")
    IN  IF el.exc # NoExc
        THEN [exc |-> NoExc, ret |-> None]
        ELSE IF el.ret # None
        THEN [exc |-> NoExc,
              ret |-> IF "UserName" \in DOMAIN el.ret.attrib
                      THEN el.ret.attrib["UserName"] ELSE None]
        ELSE [exc |-> NoExc, ret |-> None]

\* a timestamp is <<date, "T", hour, zone>> with a date of Dates, an hour of
\* the day in two digits and the zone "Z" or "+00:00"; anything else is not
\* in ISO format.  Pacific time is eight hours behind UTC.
imaging_date(ome_metadata) ==
    LET el == get_metadata_element(ome_metadata, "./Image/AcquisitionDate")
        Dates == <<"2024-01-01", "2024-01-02", "2024-01-03">>
        Hours == [h \in {"03", "12", "23"} |->
                     IF h = "03" THEN 3 ELSE IF h = "12" THEN 12 ELSE 23]
        replaced(text) ==
            [i \in 1..Len(text) |-> IF text[i] = "Z" THEN "+00:00" ELSE text[i]]
        truthy(text) == text # None /\ text.v # <<>>
        fromisoformat(text) ==
            IF /\ Len(text) = 4
               /\ InTuple(text[1], Dates)
               /\ text[2] = "T"
               /\ text[3] \in DOMAIN Hours
               /\ text[4] = "+00:00"
            THEN [exc |-> NoExc,
                  ret |-> [day |-> TupleIndex(Dates, text[1]) + 1,
                           hour |-> Hours[text[3]]]]
            ELSE [exc |-> Exc("ValueError", "fromisoformat"), ret |-> None]
        astimezone(t) ==
            IF t.hour >= 8 THEN [day |-> t.day, hour |-> t.hour - 8]
            ELSE [day |-> t.day - 1, hour |-> t.hour + 16]
        isoformat(day) ==
            IF day >= 1 THEN PyStr(<<Dates[day]>>)
            ELSE PyStr(<<"2023-12-31">>)
    IN  IF el.exc # NoExc
        THEN [exc |-> NoExc, ret |-> None]
        ELSE IF el.ret # None /\ truthy(el.ret.text)
        THEN LET utc_time == fromisoformat(replaced(el.ret.text.v))
             IN  IF utc_time.exc # NoExc
                 THEN \* except ValueError: log.warning(...)
                      [exc |-> NoExc, ret |-> None]
                 ELSE [exc |-> NoExc,
                       ret |-> isoformat(astimezone(utc_time.ret).day)]
        ELSE [exc |-> NoExc, ret |-> None]

\* float(text) is defined for the texts of Floats, which gives for each the
\* digits of round(float(text)) and of str(float(text)); for any other
\* text it raises ValueError
objective(ome_metadata) ==
    LET el == get_metadata_element(ome_metadata, "./Instrument/Objective")
        Floats ==
            [text \in {<<"6", "3">>, <<"1", "9", ".", "6">>,
                       <<"1", ".", "2">>, <<".", "8", "0">>} |->
                IF text = <<"6", "3">>
                THEN [round |-> <<"6", "3">>, str |-> <<"6", "3", ".", "0">>]
                ELSE IF text = <<"1", "9", ".", "6">>
                THEN [round |-> <<"2", "0">>, str |-> <<"1", "9", ".", "6">>]
                ELSE IF text = <<"1", ".", "2">>
                THEN [round |-> <<"1">>, str |-> <<"1", ".", "2">>]
                ELSE [round |-> <<"1">>, str |-> <<"0", ".", "8">>]]
        get(e, key) == IF key \in DOMAIN e.attrib THEN e.attrib[key] ELSE None
        immersion_suffix(immersion) ==
            IF immersion = PyStr(<<"O", "i", "l">>) THEN <<"O", "i", "l">>
            ELSE IF immersion = PyStr(<<"W", "a", "t", "e", "r">>)
            THEN <<"W">>
            ELSE <<>>
        raw_obj(nominal, lens_na, immersion) ==
            Floats[nominal.v].round \o <<"x", "/">> \o Floats[lens_na.v].str
                \o immersion_suffix(immersion)
        matches(raw) ==
            SelectSeq(VALID_OBJECTIVES, LAMBDA valid : Substring(raw, valid))
    IN  IF el.exc # NoExc
        THEN [exc |-> NoExc, ret |-> None]
        ELSE IF el.ret = None
        THEN [exc |-> NoExc, ret |-> None]
        ELSE LET nominal == get(el.ret, "NominalMagnification")
                 lens_na == get(el.ret, "LensNA")
                 immersion == get(el.ret, "Immersion")
             IN  IF nominal = None \/ lens_na = None
                 THEN [exc |-> NoExc, ret |-> None]
                 ELSE IF nominal.v \notin DOMAIN Floats
                         \/ lens_na.v \notin DOMAIN Floats
                 THEN \* float raises ValueError: except Exception
                      [exc |-> NoExc, ret |-> None]
                 ELSE IF InTuple(raw_obj(nominal, lens_na, immersion),
                                 VALID_OBJECTIVES)
                 THEN [exc |-> NoExc,
                       ret |-> PyStr(raw_obj(nominal, lens_na, immersion))]
                 ELSE IF matches(raw_obj(nominal, lens_na, immersion)) # <<>>
                 THEN [exc |-> NoExc,
                       ret |-> PyStr(Head(matches(
                                   raw_obj(nominal, lens_na, immersion))))]
                 ELSE [exc |-> NoExc, ret |-> None]

\* the helper is given an OME object whose conversion raises, or one with
\* or without the element the helper looks for
ExtractBinning ==
    /\ \E fault \in {"none", "AttributeError", "XMLSyntaxError"},
          found \in BOOLEAN,
          attrib \in {<<>>, [Binning |-> PyStr(<<"2", "x", "2">>)],
                      [ID |-> PyStr(<<"D", "0">>)]} :
           LET path == "./Image/Pixels/Channel/DetectorSettings"
               ome == [fault |-> fault,
                       elements |->
                           IF found
                           THEN (path :> [attrib |-> attrib, text |-> None])
                           ELSE <<>>]
           IN  metacall' = [NoMetaCall EXCEPT !.op = "binning",
                                              !.name = path,
                                              !.value = ome,
                                              !.exc = binning(ome).exc,
                                              !.ret = binning(ome).ret]
    /\ UNCHANGED <<reader, plugin, last, returned, dimcall, second, frame>>

ExtractImagedBy ==
    /\ \E fault \in {"none", "AttributeError", "XMLSyntaxError"},
          found \in BOOLEAN,
          attrib \in {<<>>, [UserName |-> PyStr(<<"a", "b">>)],
                      [ID |-> PyStr(<<"E", "0">>)]} :
           LET path == "./Experimenter"
               ome == [fault |-> fault,
                       elements |->
                           IF found
                           THEN (path :> [attrib |-> attrib, text |-> None])
                           ELSE <<>>]
           IN  metacall' = [NoMetaCall EXCEPT !.op = "imaged_by",
                                              !.name = path,
                                              !.value = ome,
                                              !.exc = imaged_by(ome).exc,
                                              !.ret = imaged_by(ome).ret]
    /\ UNCHANGED <<reader, plugin, last, returned, dimcall, second, frame>>

ExtractImagingDate ==
    /\ \E fault \in {"none", "AttributeError", "XMLSyntaxError"},
          found \in BOOLEAN,
          date \in {"2024-01-01", "2024-01-02", "yesterday"},
          hour \in {"03", "12"},
          zone \in {"Z", "+00:00", "PST"},
          whole \in {"text", "empty", "absent"} :
           LET path == "./Image/AcquisitionDate"
               text == IF whole = "text"
                       THEN PyStr(<<date, "T", hour, zone>>)
                       ELSE IF whole = "empty" THEN PyStr(<<>>) ELSE None
               ome == [fault |-> fault,
                       elements |->
                           IF found
                           THEN (path :> [attrib |-> <<>>, text |-> text])
                           ELSE <<>>]
           IN  metacall' = [NoMetaCall EXCEPT !.op = "imaging_date",
                                              !.name = path,
                                              !.value = ome,
                                              !.exc = imaging_date(ome).exc,
                                              !.ret = imaging_date(ome).ret]
    /\ UNCHANGED <<reader, plugin, last, returned, dimcall, second, frame>>

ExtractObjective ==
    /\ \E fault \in {"none", "AttributeError", "XMLSyntaxError"},
          found \in BOOLEAN,
          nominal \in {None, PyStr(<<"6", "3">>),
                       PyStr(<<"1", "9", ".", "6">>),
                       PyStr(<<"6", "3", "x">>)},
          lens_na \in {None, PyStr(<<"1", ".", "2">>),
                       PyStr(<<".", "8", "0">>), PyStr(<<"n", "a">>)},
          immersion \in {None, PyStr(<<"O", "i", "l">>),
                         PyStr(<<"W", "a", "t", "e", "r">>),
                         PyStr(<<"A", "i", "r">>)} :
           LET path == "./Instrument/Objective"
               given == [NominalMagnification |-> nominal,
                         LensNA |-> lens_na, Immersion |-> immersion]
               attrib == [k \in {k \in DOMAIN given : given[k] # None} |->
                             given[k]]
               ome == [fault |-> fault,
                       elements |->
                           IF found
                           THEN (path :> [attrib |-> attrib, text |-> None])
                           ELSE <<>>]
           IN  metacall' = [NoMetaCall EXCEPT !.op = "objective",
                                              !.name = path,
                                              !.value = ome,
                                              !.exc = objective(ome).exc,
                                              !.ret = objective(ome).ret]
    /\ UNCHANGED <<reader, plugin, last, returned, dimcall, second, frame>>

OmeNext ==
    \/ ExtractBinning
    \/ ExtractImagedBy
    \/ ExtractImagingDate
    \/ ExtractObjective

OmeSpec == DimInit /\ [][OmeNext]_vars

(***************************************************************************)
(* Two Reader instances of one class, reader and second, over the same     *)
(* file: every call is made on one of them                                 *)
(***************************************************************************)
\* an assignment to an attribute of the class: every instance that reads
\* the attribute sees the new value
SelfAssign_on_class(objs, k, new) == [i \in DOMAIN objs |-> new]

\* self.<attribute> = value inside a method called on the instance k binds
\* the attribute in that instance: the class-level default, and with it
\* what the other instance reads, stays as it was
SelfAssign(objs, k, new) == [objs EXCEPT ![k] = new]

\* the history of a call on the instance k: as Record, with the instance
\* called (on) and the other instance as it was before the call (rest)
RecordOn(k, op, arg, r) ==
    /\ reader' = SelfAssign(<<reader, second>>, k,
                            [r.self EXCEPT !._switches = 0])[1]
    /\ second' = SelfAssign(<<reader, second>>, k,
                            [r.self EXCEPT !._switches = 0])[2]
    /\ last' = [op |-> op, arg |-> arg, exc |-> r.exc, ret |-> r.ret,
                switches |-> r.self._switches,
                pre |-> <<reader, second>>[k], before |-> returned,
                on |-> k, rest |-> <<reader, second>>[3 - k]]
    /\ UNCHANGED <<plugin, returned, dimcall, metacall, frame>>

SetSceneOn ==
    \E k \in 1..2 : \E i \in 0..1 :
        RecordOn(k, "set_scene", IntArg(i),
                 set_scene(<<reader, second>>[k], IntArg(i)))

SetResolutionLevelOn ==
    \E k \in 1..2 : \E l \in 0..1 :
        RecordOn(k, "set_resolution_level", IntArg(l),
                 set_resolution_level(plugin, <<reader, second>>[k], l))

AccessOn ==
    \E k \in 1..2 : \E view \in {"xarray_data", "dims", "metadata"} :
        RecordOn(k, view, NoArg,
                 CASE view = "xarray_data" ->
                          xarray_data(plugin, <<reader, second>>[k], {})
                   [] view = "dims" ->
                          dims(plugin, <<reader, second>>[k], {})
                   [] OTHER ->
                          metadata(plugin, <<reader, second>>[k], {}))

PairNext ==
    \/ SetSceneOn
    \/ SetResolutionLevelOn
    \/ AccessOn

PairSpec == Init /\ [][PairNext]_vars

(***************************************************************************)
(* Two threads on one Reader without a lock: one requests the lazy view,   *)
(* the other calls set_scene.  A thread may be preempted between any two   *)
(* statements, so each statement of the two methods is a step              *)
(***************************************************************************)
\* xarray_dask_data, the test of the cache: the entry is absent
ObserveMiss ==
    /\ frame.fill.pc = "idle"
    /\ reader._xarray_dask_data = None
    /\ frame' = [frame EXCEPT !.fill.pc = "miss",
                              !.raced = @ \/ frame.switch.pc # "idle"]
    /\ UNCHANGED <<reader, plugin, last, returned, dimcall, metacall, second>>

\* xarray_dask_data, the call of _read_delayed: the plugin reads the scene
\* that is current now; an exception ends the request
ReadDelayed ==
    /\ frame.fill.pc = "miss"
    /\ \E env \in Envs({"_read_delayed"}) :
          /\ reader' = _read_delayed(plugin, reader, env).self
          /\ frame' = [frame EXCEPT
                 !.fill = IF _read_delayed(plugin, reader, env).exc = NoExc
                          THEN [pc |-> "read",
                                local |-> _read_delayed(plugin, reader, env).ret]
                          ELSE Idle.fill,
                 !.raced = @ \/ frame.switch.pc # "idle"]
    /\ UNCHANGED <<plugin, last, returned, dimcall, metacall, second>>

\* xarray_dask_data, the assignment self._xarray_dask_data = <the result>
StoreResult ==
    /\ frame.fill.pc = "read"
    /\ reader' = [reader EXCEPT !._xarray_dask_data = frame.fill.local]
    /\ frame' = [frame EXCEPT !.fill = Idle.fill,
                              !.raced = @ \/ frame.switch.pc # "idle"]
    /\ UNCHANGED <<plugin, last, returned, dimcall, metacall, second>>

\* set_scene up to the assignment of _current_scene_index: the argument
\* differs from the current scene and is valid
AssignSceneIndex ==
    /\ frame.switch.pc = "idle"
    /\ \E a \in SceneArgs :
          /\ set_scene(reader, a).exc = NoExc
          /\ set_scene(reader, a).self._switches > 0
          /\ reader' = [reader EXCEPT !._current_scene_index =
                            set_scene(reader, a).self._current_scene_index]
    /\ frame' = [frame EXCEPT !.switch.pc = "assigned",
                              !.raced = @ \/ frame.fill.pc # "idle"]
    /\ UNCHANGED <<plugin, last, returned, dimcall, metacall, second>>

\* set_scene, the call of _reset_self that follows the assignment
ResetSelf ==
    /\ frame.switch.pc = "assigned"
    /\ reader' = _reset_self(reader)
    /\ frame' = [frame EXCEPT !.switch.pc = "idle",
                              !.raced = @ \/ frame.fill.pc # "idle"]
    /\ UNCHANGED <<plugin, last, returned, dimcall, metacall, second>>

RaceNext ==
    \/ ObserveMiss
    \/ ReadDelayed
    \/ StoreResult
    \/ AssignSceneIndex
    \/ ResetSelf

RaceSpec == Init /\ [][RaceNext]_vars

(***************************************************************************)
(* Vocabulary of the properties                                            *)
(***************************************************************************)
AllAbsent(s) == \A e \in CacheEntries : s[e] = None

AllPresent(s) == \A e \in CacheEntries : s[e] # None

HasCurrentScene(s) == current_scene(s).exc = NoExc

CurrentPosition(s) == PyIndex(s._current_scene_index, Len(scenes))

\* a scene id that is a member of scenes, or a position 0 <= i < len(scenes)
NamesValidScene(a) ==
    \/ a.t = "str" /\ InTuple(a.s, scenes)
    \/ a.t = "int" /\ 0 <= a.v /\ a.v < Len(scenes)

NamedPosition(a) == IF a.t = "str" THEN TupleIndex(scenes, a.s) ELSE a.v

Unchanged == reader = last.pre /\ last.switches = 0

SceneIndexError == Exc("IndexError", "scene index is greater than the maximum")

SceneIdError == Exc("IndexError", "scene id is not present")

LevelError == Exc("IndexError", "resolution level is not present")

(***************************************************************************)
(* C1                                                                      *)
(***************************************************************************)
C1_Case ==
    /\ last.op = "set_scene"
    /\ NamesValidScene(last.arg)
    /\ HasCurrentScene(last.pre)
    /\ NamedPosition(last.arg) # CurrentPosition(last.pre)

\* C1: after set_scene(x), x a member of scenes or a position in
\* 0..len(scenes)-1 that names another scene than the current one, the call
\* has returned, current_scene_index is the position of that scene and every
\* one of the seven cache entries is None.
C1_SwitchClearsEveryEntry ==
    C1_Case => /\ last.exc = NoExc
               /\ reader._current_scene_index = NamedPosition(last.arg)
               /\ AllAbsent(reader)

\* a switch by scene id away from a scene whose seven entries were all cached
C1_Witness ==
    /\ C1_Case
    /\ last.arg.t = "str"
    /\ AllPresent(last.pre)
    /\ AllAbsent(reader)

(***************************************************************************)
(* C2                                                                      *)
(***************************************************************************)
Arrays == {"_xarray_dask_data", "_xarray_data",
           "_mosaic_xarray_dask_data", "_mosaic_xarray_data"}

\* the entry was computed from the present scene index and level
EntryIsCurrent(pl, s, e) ==
    LET i == s._current_scene_index
        l == s._current_resolution_level
    IN  IF e \in Arrays \cup {"_metadata"}
        THEN s[e].scene = i /\ s[e].level = l
        ELSE IF e = "_physical_pixel_sizes"
        THEN s[e].Z.scene = i /\ s[e].Z.level = l
        ELSE /\ PyIndexValid(i, Len(scenes))
             /\ s[e].order = SceneOrder(pl, PyIndex(i, Len(scenes)))
             /\ s[e].shape = SceneShape(pl, PyIndex(i, Len(scenes)), l)

\* C2: in every reachable state every cache entry that is present was
\* computed for the present (current_scene_index, current_resolution_level),
\* and a set_scene or set_resolution_level call that assigned the scene or
\* the level left no entry present.
C2_NoStaleEntry ==
    /\ \A e \in CacheEntries :
           reader[e] # None => EntryIsCurrent(plugin, reader, e)
    /\ (last.op \in {"set_scene", "set_resolution_level"} /\ last.switches > 0)
           => AllAbsent(reader)

\* all seven entries cached again, for a scene and a level other than the
\* initial ones, after the entries of another state had been cached
C2_Witness ==
    /\ AllPresent(reader)
    /\ reader._current_scene_index # 0
    /\ reader._current_resolution_level # 0

(***************************************************************************)
(* C3                                                                      *)
(***************************************************************************)
C3_Case ==
    /\ last.op = "set_scene"
    /\ \/ /\ last.arg.t = "str"
          /\ HasCurrentScene(last.pre)
          /\ last.arg.s = current_scene(last.pre).ret
       \/ /\ last.arg.t = "int"
          /\ last.arg.v = last.pre._current_scene_index

C4_Case ==
    /\ last.op = "set_scene"
    /\ last.arg.t = "int"
    /\ last.arg.v >= Len(scenes)

\* C4: set_scene(i) with an integer i >= len(scenes) raises the
\* scene-index IndexError and leaves the index, the level and every cache
\* entry as they were.
C4_IndexTooLargeIsRejected ==
    C4_Case => last.exc = SceneIndexError /\ Unchanged

\* set_scene(len(scenes)) on a reader with cached data
C4_Witness ==
    /\ C4_Case
    /\ last.arg.v = Len(scenes)
    /\ last.pre._xarray_dask_data # None
    /\ last.exc = SceneIndexError

(***************************************************************************)
(* C5                                                                      *)
(***************************************************************************)
C5_Case ==
    /\ last.op = "set_scene"
    /\ last.arg.t = "str"
    /\ ~InTuple(last.arg.s, scenes)

\* C5: set_scene(s) with a string s that is not a member of scenes raises
\* the IndexError that names s and the valid scenes, and leaves the index,
\* the level and every cache entry as they were.
C5_UnknownIdIsRejected ==
    C5_Case => last.exc = SceneIdError /\ Unchanged

(***************************************************************************)
(* C6                                                                      *)
(***************************************************************************)
\* C6: in every reachable state 0 <= current_scene_index < len(scenes).
C6_SceneIndexInRange ==
    /\ 0 <= reader._current_scene_index
    /\ reader._current_scene_index < Len(scenes)

(***************************************************************************)
(* C7                                                                      *)
(***************************************************************************)
C7_Case ==
    /\ last.op = "set_resolution_level"
    /\ resolution_levels(plugin, last.pre).exc = NoExc
    /\ InTuple(last.arg.v, resolution_levels(plugin, last.pre).ret)

\* the object after a switch from s to some other scene position
AfterSceneSwitch(s) ==
    set_scene(s, IntArg(CHOOSE i \in 0..(Len(scenes) - 1) :
                            i # s._current_scene_index)).self

\* C7: set_resolution_level(l) with l in resolution_levels returns; if l
\* is the current level the whole object is as it was, otherwise the level
\* is l, the scene index is as it was and every cache entry has the value a
\* scene switch from the same state gives it, which is None.
C7_LevelSwitchClearsLikeSceneSwitch ==
    C7_Case =>
        /\ last.exc = NoExc
        /\ reader._current_scene_index = last.pre._current_scene_index
        /\ IF last.arg.v = last.pre._current_resolution_level
           THEN Unchanged
           ELSE /\ reader._current_resolution_level = last.arg.v
                /\ \A e \in CacheEntries :
                       reader[e] = AfterSceneSwitch(last.pre)[e]
                /\ AllAbsent(reader)

\* a switch to another level away from a state whose seven entries were cached
C7_Witness ==
    /\ C7_Case
    /\ last.arg.v # last.pre._current_resolution_level
    /\ AllPresent(last.pre)
    /\ AllAbsent(reader)

(***************************************************************************)
(* C8                                                                      *)
(***************************************************************************)
C8_Case ==
    /\ last.op = "set_resolution_level"
    /\ resolution_levels(plugin, last.pre).exc = NoExc
    /\ ~InTuple(last.arg.v, resolution_levels(plugin, last.pre).ret)

\* C8: set_resolution_level(l) with l not in resolution_levels raises the
\* resolution-level IndexError and leaves the level, the scene index and
\* every cache entry as they were; a reader that keeps the default
\* resolution_levels rejects every level but the current one.
C8_UnknownLevelIsRejected ==
    /\ C8_Case => last.exc = LevelError /\ Unchanged
    /\ (/\ last.op = "set_resolution_level"
        /\ plugin.levels = "default"
        /\ last.arg.v # last.pre._current_resolution_level)
           => last.exc = LevelError /\ Unchanged

\* a level other than the current one refused by a reader with the default
\* resolution_levels and cached data
C8_Witness ==
    /\ C8_Case
    /\ plugin.levels = "default"
    /\ last.arg.v # last.pre._current_resolution_level
    /\ last.pre._xarray_data # None
    /\ last.exc = LevelError

(***************************************************************************)
(* C9                                                                      *)
(***************************************************************************)
\* the object once the first scene has been selected by position
AtFirstScene(s) == set_scene(s, IntArg(0)).self

\* C9: a new Reader has scene index 0, resolution level 0 and no cache
\* entry, and no reachable state is terminal: in every reachable state some
\* set_scene call returns and changes the scene, selecting scene 0 returns,
\* and after it some set_resolution_level call and every view access of a
\* healthy plugin return (the mosaic views whenever the scene has tiles and
\* the plugin stitches).
C9_InitialStateAndNoTerminalState ==
    /\ last.op = "__init__" =>
           /\ reader._current_scene_index = 0
           /\ reader._current_resolution_level = 0
           /\ AllAbsent(reader)
    /\ \E a \in SceneArgs :
           /\ set_scene(reader, a).exc = NoExc
           /\ set_scene(reader, a).self._current_scene_index
                  # reader._current_scene_index
    /\ set_scene(reader, IntArg(0)).exc = NoExc
    /\ \E l \in LevelArgs :
           set_resolution_level(plugin, AtFirstScene(reader), l).exc = NoExc
    /\ xarray_dask_data(plugin, AtFirstScene(reader), {}).exc = NoExc
    /\ xarray_data(plugin, AtFirstScene(reader), {}).exc = NoExc
    /\ dims(plugin, AtFirstScene(reader), {}).exc = NoExc
    /\ metadata(plugin, AtFirstScene(reader), {}).exc = NoExc
    /\ (plugin.stitch /\ InTuple("M", SceneOrder(plugin, 0))) =>
           /\ mosaic_xarray_dask_data(plugin, AtFirstScene(reader), {}).exc
                  = NoExc
           /\ mosaic_xarray_data(plugin, AtFirstScene(reader), {}).exc = NoExc

\* a state late in a run: a call has just raised while data were cached
C9_Witness ==
    /\ last.op # "__init__"
    /\ last.exc # NoExc
    /\ reader._xarray_data # None
    /\ reader._current_scene_index # 0

(***************************************************************************)
(* C10                                                                     *)
(***************************************************************************)
C10_Case ==
    /\ last.op = "xarray_data"
    /\ last.exc = NoExc
    /\ last.before["xarray_data"] # None

\* C10: an eager-view request that returns after an earlier eager-view
\* request has returned, with no assignment to the scene or the level in
\* between, returns the same object as the earlier one and obtains no
\* result from any primitive; _read_immediate has produced exactly one
\* result since the last invalidation.
C10_EagerViewIsIdempotent ==
    C10_Case =>
        /\ last.ret = last.before["xarray_data"]
        /\ reader._produced = last.pre._produced
        /\ reader._produced["_read_immediate"] = 1

\* the second of two eager requests, the lazy cache being the one remade
\* from the eager array
C10_Witness ==
    /\ C10_Case
    /\ last.ret.origin = "_read_immediate"
    /\ reader._xarray_dask_data.origin = "from_array"

(***************************************************************************)
(* C11                                                                     *)
(***************************************************************************)
\* the two arrays carry the same axis labels, coordinates, attributes and
\* element values: the same dims and shape, read from the same scene and
\* level by the same primitive result
SameContent(a, b) ==
    /\ a.dims = b.dims
    /\ a.shape = b.shape
    /\ a.scene = b.scene
    /\ a.level = b.level
    /\ a.serial = b.serial
    /\ Attrs(a) = Attrs(b)

C11_Case ==
    /\ last.op = "xarray_dask_data"
    /\ last.pre._xarray_data # None

\* C11: once an eager-view request has returned and the scene and the
\* level have not been assigned since, a lazy-view request returns without
\* obtaining a result from _read_delayed, also when _read_delayed would
\* raise and whether or not the lazy view was read before the eager one,
\* and the dask-backed array it returns has the dims, shape, attributes
\* and element values of the eager array.
C11_LazyViewUpgradedWithEager ==
    /\ reader._xarray_data # None =>
           LET r == xarray_dask_data(plugin, reader, {"_read_delayed"})
           IN  /\ r.exc = NoExc
               /\ r.self = reader
               /\ r.ret.backing = "dask"
               /\ SameContent(r.ret, reader._xarray_data)
    /\ C11_Case =>
           /\ last.exc = NoExc
           /\ reader._produced = last.pre._produced
           /\ last.ret.backing = "dask"
           /\ SameContent(last.ret, last.pre._xarray_data)

\* a lazy request after an eager one, the lazy view having been read from
\* _read_delayed before the eager request
C11_Witness ==
    /\ C11_Case
    /\ reader._produced["_read_delayed"] = 1
    /\ reader._produced["_read_immediate"] = 1
    /\ last.ret.origin = "from_array"

\* a lazy request after an eager one, the lazy view never read before
C11_WitnessFirstLazy ==
    /\ C11_Case
    /\ reader._produced["_read_delayed"] = 0
    /\ last.ret.origin = "from_array"

(***************************************************************************)
(* C12                                                                     *)
(***************************************************************************)
LazyAccesses == {"xarray_dask_data", "dask_data", "shape", "dtype", "dims",
                 "channel_names", "metadata", "mosaic_tile_dims",
                 "get_image_dask_data"}

\* the outcome of every lazy access in state s and environment env
LazyOutcomes(pl, s, env) ==
    <<xarray_dask_data(pl, s, env), dask_data(pl, s, env), shape(pl, s, env),
      dtype(pl, s, env), dims(pl, s, env), channel_names(pl, s, env),
      metadata(pl, s, env), mosaic_tile_dims(pl, s, env),
      get_image_dask_data(pl, s, env, None, <<>>),
      get_image_dask_data(pl, s, env, PyStr(<<"Z", "Y", "X">>), <<>>),
      get_image_dask_data(pl, s, env, PyStr(<<"C", "Y", "X">>), <<>>)>>

\* C12: a lazy access obtains no result from _read_immediate and leaves
\* _xarray_data as it was, and its outcome is the same in a call where
\* _read_immediate would raise; as long as _read_immediate has produced
\* nothing since the scene or level was assigned (so along every sequence
\* of lazy accesses only) _xarray_data is None.
C12_LazyAccessNeverReadsEagerly ==
    /\ reader._produced["_read_immediate"] = 0 => reader._xarray_data = None
    /\ last.op \in LazyAccesses =>
           /\ reader._xarray_data = last.pre._xarray_data
           /\ reader._produced["_read_immediate"]
                  = last.pre._produced["_read_immediate"]
    /\ \A env \in Envs({"_read_delayed"}) :
           /\ LazyOutcomes(plugin, reader, env \cup {"_read_immediate"})
                  = LazyOutcomes(plugin, reader, env)
           /\ \A i \in DOMAIN LazyOutcomes(plugin, reader, env) :
                  LET r == LazyOutcomes(plugin, reader, env)[i]
                  IN  /\ r.self._xarray_data = reader._xarray_data
                      /\ r.self._produced["_read_immediate"]
                             = reader._produced["_read_immediate"]

\* a chunk requested in an output order after the lazy view, the dims and
\* the metadata were read, nothing having been read eagerly
C12_Witness ==
    /\ last.op = "get_image_dask_data"
    /\ last.arg # None
    /\ last.exc = NoExc
    /\ reader._xarray_dask_data # None
    /\ reader._dims # None
    /\ reader._metadata # None
    /\ reader._produced["_read_delayed"] = 1
    /\ reader._produced["_read_immediate"] = 0
    /\ reader._xarray_data = None

(***************************************************************************)
(* C13                                                                     *)
(***************************************************************************)
MosaicViews == {"mosaic_xarray_dask_data", "mosaic_xarray_data",
                "mosaic_dask_data", "mosaic_data"}

StitchPrimitives == {"_get_stitched_dask_mosaic", "_get_stitched_mosaic"}

NoTilesError == Exc("InvalidDimensionOrderingError",
                    "cannot create stitched mosaic without tiles")

\* dims.order of s is available and has no tile axis
LacksTileAxis(pl, s) ==
    /\ dims(pl, s, {}).exc = NoExc
    /\ ~InTuple("M", dims(pl, s, {}).ret.order)

\* the outcome of the four mosaic views in state s and environment env
MosaicOutcomes(pl, s, env) ==
    <<mosaic_xarray_dask_data(pl, s, env), mosaic_xarray_data(pl, s, env),
      mosaic_dask_data(pl, s, env), mosaic_data(pl, s, env)>>

NoMosaicCached(s) ==
    /\ s._mosaic_xarray_dask_data = None
    /\ s._mosaic_xarray_data = None

C13_Case ==
    /\ last.op \in MosaicViews
    /\ LacksTileAxis(plugin, last.pre)

\* C13: in every reachable state whose dims.order has no 'M', whatever
\* scene was selected before, mosaic_xarray_dask_data, mosaic_xarray_data,
\* mosaic_dask_data and mosaic_data each raise
\* InvalidDimensionOrderingError, also in a call where the stitch
\* primitives would raise, no stitch primitive produces a result and the
\* two mosaic cache entries are None before and after the call.
C13_NoTileAxisNoMosaic ==
    /\ LacksTileAxis(plugin, reader) =>
           /\ NoMosaicCached(reader)
           /\ \A env \in SUBSET StitchPrimitives :
                  \A i \in DOMAIN MosaicOutcomes(plugin, reader, env) :
                      LET r == MosaicOutcomes(plugin, reader, env)[i]
                      IN  /\ r.exc = NoTilesError
                          /\ NoMosaicCached(r.self)
                          /\ \A p \in StitchPrimitives :
                                 r.self._produced[p] = reader._produced[p]
    /\ C13_Case =>
           /\ last.exc = NoTilesError
           /\ NoMosaicCached(reader)
           /\ \A p \in StitchPrimitives :
                  reader._produced[p] = last.pre._produced[p]

\* mosaic_data refused on the second scene of an image whose scenes all lack
\* tiles, by a reader that was switched there from the first scene
C13_Witness ==
    /\ C13_Case
    /\ last.op = "mosaic_data"
    /\ plugin.mosaic = "none"
    /\ reader._current_scene_index = 1
    /\ last.exc = NoTilesError

(***************************************************************************)
(* C14                                                                     *)
(***************************************************************************)
HasTileAxis(pl, s) ==
    /\ dims(pl, s, {}).exc = NoExc
    /\ InTuple("M", dims(pl, s, {}).ret.order)

\* the stitch primitive behind each mosaic view
PrimitiveOf(view) ==
    IF view \in {"mosaic_xarray_dask_data", "mosaic_dask_data"}
    THEN "_get_stitched_dask_mosaic" ELSE "_get_stitched_mosaic"

SamePosition(s, t) ==
    /\ s._current_scene_index = t._current_scene_index
    /\ s._current_resolution_level = t._current_resolution_level

Unsupported(r, s) ==
    /\ r.exc.type = "NotImplementedError"
    /\ NoMosaicCached(r.self)
    /\ SamePosition(r.self, s)
    /\ r.self._switches = s._switches

\* C14: a plugin that overrides no stitch primitive never has a mosaic
\* entry cached; in every reachable state, in every environment, its two
\* stitch primitives and both tile position lookups raise
\* NotImplementedError and leave the object as it is, and every mosaic view
\* requested where a tile axis is present raises the NotImplementedError of
\* its stitch primitive, caches no mosaic and assigns neither the scene nor
\* the level.
C14_UnsupportedMosaicCapability ==
    /\ ~plugin.stitch =>
           /\ NoMosaicCached(reader)
           /\ \A env \in SUBSET StitchPrimitives :
                  /\ Unsupported(_get_stitched_dask_mosaic(plugin, reader, env),
                                 reader)
                  /\ Unsupported(_get_stitched_mosaic(plugin, reader, env),
                                 reader)
                  /\ _get_stitched_dask_mosaic(plugin, reader, env).self
                         = reader
                  /\ _get_stitched_mosaic(plugin, reader, env).self = reader
                  /\ HasTileAxis(plugin, reader) =>
                         \A i \in DOMAIN MosaicOutcomes(plugin, reader, env) :
                             Unsupported(
                                 MosaicOutcomes(plugin, reader, env)[i],
                                 reader)
    /\ \A i \in 0..1 :
           /\ get_mosaic_tile_position(plugin, reader, i).exc.type
                  = "NotImplementedError"
           /\ get_mosaic_tile_position(plugin, reader, i).self = reader
    /\ get_mosaic_tile_positions(plugin, reader).exc.type
           = "NotImplementedError"
    /\ get_mosaic_tile_positions(plugin, reader).self = reader
    /\ (/\ last.op \in MosaicViews
        /\ ~plugin.stitch
        /\ HasTileAxis(plugin, last.pre)) =>
           /\ last.exc = Exc("NotImplementedError", PrimitiveOf(last.op))
           /\ NoMosaicCached(reader)
           /\ SamePosition(reader, last.pre)
           /\ last.switches = 0
    /\ last.op \in {"get_mosaic_tile_position", "get_mosaic_tile_positions"} =>
           /\ last.exc = Exc("NotImplementedError", last.op)
           /\ Unchanged

\* the lazy mosaic view refused by a plugin without stitch primitives on a
\* scene that has a tile axis, the dims having been cached by an earlier call
C14_Witness ==
    /\ last.op = "mosaic_xarray_dask_data"
    /\ ~plugin.stitch
    /\ HasTileAxis(plugin, last.pre)
    /\ last.pre._dims # None
    /\ last.exc = Exc("NotImplementedError", "_get_stitched_dask_mosaic")
    /\ NoMosaicCached(reader)

\* a tile position refused on a scene that has a tile axis
C14_WitnessTilePosition ==
    /\ last.op = "get_mosaic_tile_position"
    /\ HasTileAxis(plugin, last.pre)
    /\ last.exc = Exc("NotImplementedError", "get_mosaic_tile_position")

(***************************************************************************)
(* C15                                                                     *)
(***************************************************************************)
C15_Case ==
    /\ last.op = "mosaic_xarray_dask_data"
    /\ plugin.stitch
    /\ HasTileAxis(plugin, last.pre)
    /\ last.pre._mosaic_xarray_data # None

\* C15: with both stitch primitives supplied and a tile axis present, once
\* a mosaic eager-view request has returned and the scene and the level
\* have not been assigned since, a mosaic lazy-view request obtains no
\* result from _get_stitched_dask_mosaic and returns also when that
\* primitive would raise: the lazy mosaic entry is present whenever the
\* eager one is.
C15_MosaicLazyUpgradedWithEager ==
    /\ reader._mosaic_xarray_data # None =>
           /\ reader._mosaic_xarray_dask_data # None
           /\ mosaic_xarray_dask_data(plugin, reader,
                                      {"_get_stitched_dask_mosaic"}).exc
                  = NoExc
    /\ C15_Case =>
           /\ last.exc = NoExc
           /\ reader._produced["_get_stitched_dask_mosaic"]
                  = last.pre._produced["_get_stitched_dask_mosaic"]

(***************************************************************************)
(* C16                                                                     *)
(***************************************************************************)
C16_Case ==
    /\ last.op = "resolution_level_dims"
    /\ last.exc = NoExc

\* C16: when resolution_level_dims returns, the resolution level and the
\* scene index are the ones before the call and the returned dict has
\* exactly the members of resolution_levels as keys, each with the shape of
\* the current scene at that level.
C16_LevelDimsRestoresAndCoversLevels ==
    C16_Case =>
        LET levels == resolution_levels(plugin, last.pre).ret
            p == CurrentPosition(last.pre)
        IN  /\ SamePosition(reader, last.pre)
            /\ DOMAIN last.ret.items = {levels[i] : i \in 1..Len(levels)}
            /\ \A l \in DOMAIN last.ret.items :
                   last.ret.items[l] = SceneShape(plugin, p, l)

\* a call on a pyramid of two levels that started at the first level, so
\* that the last level visited is not the one restored
C16_Witness ==
    /\ C16_Case
    /\ DOMAIN last.ret.items = {0, 1}
    /\ last.pre._current_resolution_level = 0
    /\ last.switches > 0
    /\ reader._current_resolution_level = 0

(***************************************************************************)
(* C17                                                                     *)
(***************************************************************************)
C17_Case ==
    /\ last.op = "resolution_level_dims"
    /\ last.exc = NoExc

\* the number of places where a sequence of levels moves to another level
Changes(seq) == Cardinality({i \in 1..(Len(seq) - 1) : seq[i] # seq[i + 1]})

\* the levels the reader is asked to be at during the call, in order: the
\* starting level, every member of resolution_levels, the starting level
Itinerary(pl, s) ==
    <<s._current_resolution_level>> \o resolution_levels(pl, s).ret
        \o <<s._current_resolution_level>>

C17_WitnessSingleLevel ==
    /\ C17_Case
    /\ plugin.levels = "default"
    /\ last.switches = 0
    /\ last.pre._xarray_data # None
    /\ reader._xarray_data # None

(***************************************************************************)
(* C18                                                                     *)
(***************************************************************************)
\* the str k is one of the labels of d
IsLabel(d, k) == Len(k) = 1 /\ InTuple(k[1], d.order)

\* v is a size that d pairs with the label k
PairedSize(d, k, v) ==
    \E j \in 1..Len(d.order) : d.order[j] = k[1] /\ d.shape[j] = v

C18_Case ==
    /\ dimcall.op = "__getitem__"
    /\ dimcall.key.t = "str"

\* C18: a lookup with a str key returns the size paired with the key when
\* the key is one of the labels, and raises IndexError for every other str,
\* a str of several characters and the empty str included.
C18_StringKeyLookup ==
    C18_Case =>
        IF IsLabel(dimcall.obj, dimcall.key.v)
        THEN /\ dimcall.exc = NoExc
             /\ PairedSize(dimcall.obj, dimcall.key.v, dimcall.ret[1])
        ELSE dimcall.exc.type = "IndexError"

\* the part of C18 the code keeps: keys of exactly one character
C18_SingleCharacterKeyLookup ==
    (C18_Case /\ Len(dimcall.key.v) = 1) =>
        IF IsLabel(dimcall.obj, dimcall.key.v)
        THEN /\ dimcall.exc = NoExc
             /\ dimcall.ret = <<dimcall.ret[1]>>
             /\ PairedSize(dimcall.obj, dimcall.key.v, dimcall.ret[1])
        ELSE dimcall.exc.type = "IndexError"

\* a key of several characters or none that occurs in the order as a
\* substring ends in the KeyError of the dict
C18_SubstringKeyRaisesKeyError ==
    (/\ C18_Case
     /\ Len(dimcall.key.v) # 1
     /\ Substring(dimcall.key.v, dimcall.obj.order))
        => dimcall.exc.type = "KeyError"

(***************************************************************************)
(* C19                                                                     *)
(***************************************************************************)
\* a lookup with a sequence of labels: strs of one character each
C19_Case ==
    /\ dimcall.op = "__getitem__"
    /\ dimcall.key.t = "tuple"
    /\ \A i \in 1..Len(dimcall.key.v) : Len(dimcall.key.v[i]) = 1

\* the requested labels that d lacks, in the order of the request
Missing(d, labels) == SelectSeq(labels, LAMBDA k : ~InTuple(k[1], d.order))

\* C19: a lookup with a sequence of labels returns, when the Dimensions
\* has them all, one size for each requested label in the order of the
\* request, each a size paired with that label; when it lacks any, it
\* raises one IndexError whose message lists all the labels it lacks, in
\* the order of the request.
C19_SequenceLookup ==
    C19_Case =>
        IF Missing(dimcall.obj, dimcall.key.v) = <<>>
        THEN /\ dimcall.exc = NoExc
             /\ Len(dimcall.ret) = Len(dimcall.key.v)
             /\ \A i \in 1..Len(dimcall.key.v) :
                    PairedSize(dimcall.obj, dimcall.key.v[i], dimcall.ret[i])
        ELSE /\ dimcall.exc.type = "IndexError"
             /\ dimcall.exc.names = Missing(dimcall.obj, dimcall.key.v)
             /\ dimcall.exc.order = dimcall.obj.order

\* two labels requested against the stored order, their sizes differing
C19_Witness ==
    /\ C19_Case
    /\ dimcall.exc = NoExc
    /\ Len(dimcall.key.v) = 2
    /\ dimcall.obj.order = <<dimcall.key.v[2][1], dimcall.key.v[1][1]>>
    /\ dimcall.obj.shape = <<dimcall.ret[2], dimcall.ret[1]>>
    /\ dimcall.ret[1] # dimcall.ret[2]

\* two labels requested that the Dimensions both lacks
C19_WitnessTwoMissing ==
    /\ C19_Case
    /\ dimcall.exc.type = "IndexError"
    /\ Len(dimcall.exc.names) = 2
    /\ dimcall.exc.names[1] # dimcall.exc.names[2]
    /\ Len(dimcall.obj.order) > 0

(***************************************************************************)
(* C20                                                                     *)
(***************************************************************************)
C20_Case == dimcall.op = "__init__"

\* the labels written one after the other
Concatenated(d) ==
    IF d.t = "str" THEN d.v ELSE [i \in 1..Len(d.v) |-> d.v[i][1]]

\* C20: constructing a Dimensions raises ValueError, and yields no object,
\* if the number of labels differs from the length of the shape or if the
\* labels are a collection, not a str, with an element whose length is not
\* 1; in every other case it returns an object whose order is the labels
\* written one after the other and whose shape is the given shape.
C20_ConstructionRejectsMismatch ==
    C20_Case =>
        IF \/ Len(dimcall.dims.v) # Len(dimcall.shape)
           \/ /\ dimcall.dims.t # "str"
              /\ \E i \in 1..Len(dimcall.dims.v) : Len(dimcall.dims.v[i]) # 1
        THEN /\ dimcall.exc.type = "ValueError"
             /\ dimcall.obj = None
        ELSE /\ dimcall.exc = NoExc
             /\ dimcall.obj.order = Concatenated(dimcall.dims)
             /\ dimcall.obj.shape = dimcall.shape

\* a collection of as many labels as the shape has sizes, one of them two
\* characters long, refused
C20_Witness ==
    /\ C20_Case
    /\ dimcall.dims.t = "tuple"
    /\ Len(dimcall.dims.v) = Len(dimcall.shape)
    /\ \E i \in 1..Len(dimcall.dims.v) : Len(dimcall.dims.v[i]) = 2
    /\ dimcall.exc.type = "ValueError"

\* a collection of two labels accepted
C20_WitnessAccepted ==
    /\ C20_Case
    /\ dimcall.dims.t = "tuple"
    /\ Len(dimcall.dims.v) = 2
    /\ dimcall.exc = NoExc
    /\ dimcall.obj.order = <<"Y", "X">>
    /\ dimcall.obj.shape = <<2, 1>>

(***************************************************************************)
(* C21: two Dimensions are equal iff their order and their shape match     *)
(* position for position: separately constructed objects of the same       *)
(* labels and sizes compare equal, any difference makes them unequal.      *)
(***************************************************************************)
SameOrderAndShape(a, b) == a.order = b.order /\ a.shape = b.shape

C21_Case == dimcall.op = "__eq__"

\* C21: the comparison is true exactly when order and shape are the same
C21_EqualIffSameOrderAndShape ==
    C21_Case =>
        (dimcall.ret <=> SameOrderAndShape(dimcall.obj, dimcall.key.obj))

\* the half of C21 the comparison does keep: objects that differ in a label
\* or a size are unequal, and an object is equal to itself
C21_DifferentContentIsUnequal ==
    C21_Case =>
        /\ ~SameOrderAndShape(dimcall.obj, dimcall.key.obj) => ~dimcall.ret
        /\ dimcall.key.id = 0 => dimcall.ret

(***************************************************************************)
(* C22: every Dimensions that was constructed has pairwise distinct labels *)
(* in order, so that each label has exactly one size.                      *)
(***************************************************************************)
PairwiseDistinct(seq) ==
    \A i, j \in 1..Len(seq) : i # j => seq[i] # seq[j]

C22_Case == dimcall.op = "__init__" /\ dimcall.obj # None

\* C22: the labels of a constructed Dimensions are pairwise distinct
C22_LabelsPairwiseDistinct ==
    C22_Case => PairwiseDistinct(dimcall.obj.order)

\* what holds of a constructed Dimensions instead: as many sizes as labels,
\* and a label that occurs twice is paired with the size of its last place
C22_RepeatedLabelTakesLastSize ==
    C22_Case =>
        /\ Len(dimcall.obj.order) = Len(dimcall.obj.shape)
        /\ \A i \in 1..Len(dimcall.obj.order) :
               (\A j \in (i + 1)..Len(dimcall.obj.order) :
                    dimcall.obj.order[j] # dimcall.obj.order[i])
                   => __getattr__(dimcall.obj, dimcall.obj.order[i]).ret
                          = dimcall.obj.shape[i]

(***************************************************************************)
(* C23: on a standard-metadata record, a StandardMetadata as well as an    *)
(* EmbeddedMetadata, assigning a name outside the schema fails with the    *)
(* unknown-field error and changes nothing, so only predefined fields are  *)
(* ever populated.                                                         *)
(***************************************************************************)
Schema(m) == IF m.kind = "EmbeddedMetadata" THEN _allowed_fields
             ELSE {StandardFields[i] : i \in 1..Len(StandardFields)}

C23_Case ==
    /\ metacall.op = "__setattr__"
    /\ metacall.name \notin Schema(metacall.pre)

\* C23: an assignment outside the schema raises and leaves the record as it
\* was, and the populated names of every record are names of its schema
C23_UnknownFieldIsRejected ==
    /\ C23_Case => /\ metacall.exc.type = "AttributeError"
                   /\ metacall.obj = metacall.pre
    /\ metacall.obj # None => DOMAIN metacall.obj.dict \subseteq Schema(metacall.obj)

\* what holds: the EmbeddedMetadata rejects the name and stays as it was
C23_EmbeddedRejectsUnknownField ==
    /\ (C23_Case /\ metacall.pre.kind = "EmbeddedMetadata")
           => /\ metacall.exc.type = "AttributeError"
              /\ metacall.obj = metacall.pre
    /\ (metacall.obj # None /\ metacall.obj.kind = "EmbeddedMetadata")
           => DOMAIN metacall.obj.dict \subseteq Schema(metacall.obj)

(***************************************************************************)
(* C24: the derived timelapse field is true iff the time axis is present   *)
(* and longer than 1.                                                      *)
(***************************************************************************)
Derivations == {"standard_metadata", "from_reader"}

\* the value of a field of either kind of record
Field(m, name) == IF m.kind = "EmbeddedMetadata" THEN __get__(m, name)
                  ELSE m.dict[name]

\* the axes and the sizes of the scene and level the reader is at
CurrentOrder == SceneOrder(plugin, CurrentPosition(reader))

CurrentSize(label) ==
    AxisSize(label, CurrentPosition(reader), reader._current_resolution_level)

C24_Case == last.op \in Derivations /\ last.exc = NoExc

\* C24: the timelapse field of the derived record is True exactly when the
\* image has a T axis of more than one frame
C24_TimelapseIffMoreThanOneFrame ==
    C24_Case =>
        Field(last.ret, "timelapse")
            = [kind |-> "bool",
               b |-> InTuple("T", CurrentOrder) /\ CurrentSize("T") > 1]

\* what the derivation computes: True exactly when the image has a T axis
C24_TimelapseIffTimeAxis ==
    C24_Case =>
        Field(last.ret, "timelapse")
            = [kind |-> "bool",
               b |-> InTuple("T", CurrentOrder) /\ CurrentSize("T") > 0]

(***************************************************************************)
(* C26: deriving the standard metadata never raises because a source is    *)
(* absent: without an axis, without pixel sizes, without a transformer to  *)
(* OME the derivation succeeds and the fields are None.                    *)
(***************************************************************************)
SizeFields == [T |-> "image_size_t", C |-> "image_size_c",
               Z |-> "image_size_z", Y |-> "image_size_y",
               X |-> "image_size_x"]

PixelFields == {"pixel_size_x", "pixel_size_y", "pixel_size_z"}

OmeFields == {"binning", "imaged_by", "objective", "total_time_duration"}

\* a derivation during which the format could read the image
C26_Case == last.op \in Derivations /\ last.exc.site \notin Primitives

AbsentSourcesAreNone(m) ==
    /\ \A axis \in DOMAIN SizeFields :
           ~InTuple(axis, CurrentOrder) => Field(m, SizeFields[axis]) = None
    /\ ~plugin.caches_pps => \A f \in PixelFields : Field(m, f) = None
    /\ \A f \in OmeFields : Field(m, f) = None

\* C26: the derivation returns a record, and each field whose source is
\* absent is None in it
C26_AbsentSourcesYieldNone ==
    C26_Case => /\ last.exc = NoExc
                /\ AbsentSourcesAreNone(last.ret)

\* what holds: the derivation of EmbeddedMetadata.from_reader does so
C26_FromReaderYieldsNone ==
    (C26_Case /\ last.op = "from_reader")
        => /\ last.exc = NoExc
           /\ AbsentSourcesAreNone(last.ret)

(***************************************************************************)
(* C25: to_dict of a StandardMetadata returns a mapping whose keys are     *)
(* exactly the fixed labels, in the order the fields are declared,         *)
(* whatever is populated: a field without a value appears with None, and   *)
(* every declared field has its label in the map.                          *)
(***************************************************************************)
\* the label FIELD_LABELS gives a field
LabelOf(field) ==
    FIELD_LABELS[CHOOSE i \in 1..Len(FIELD_LABELS) :
                     FIELD_LABELS[i][1] = field][2]

C25_Case == metacall.op = "to_dict"

\* C25: the map has one item per declared field, in declaration order, under
\* the label of the field, with the value of the field or None
C25_ToDictCoversEveryField ==
    C25_Case =>
        /\ Len(metacall.ret) = Len(StandardFields)
        /\ Len(metacall.ret) = Len(FIELD_LABELS)
        /\ PairwiseDistinct([i \in 1..Len(metacall.ret) |-> metacall.ret[i][1]])
        /\ \A i \in 1..Len(StandardFields) :
               /\ \E j \in 1..Len(FIELD_LABELS) :
                      FIELD_LABELS[j][1] = StandardFields[i]
               /\ i <= Len(metacall.ret)
               /\ metacall.ret[i][1] = LabelOf(StandardFields[i])
               /\ metacall.ret[i][2] = metacall.obj.dict[StandardFields[i]]

\* a record with a size and without a binning is exported
C25_Witness ==
    /\ C25_Case
    /\ metacall.obj.dict["image_size_t"] # None
    /\ metacall.obj.dict["binning"] = None
    /\ metacall.ret[1] = <<"Binning", None>>

\* a record that was assigned a name that is no field is exported
C25_WitnessAfterUnknownName ==
    /\ C25_Case
    /\ "scene" \in DOMAIN metacall.obj.dict

(***************************************************************************)
(* C29: mosaic_tile_dims is present exactly when the dims of the current   *)
(* scene have the tile axis M, and then it is a Dimensions of order YX     *)
(* with the Y and X sizes of the current scene; otherwise it is None.  It  *)
(* follows the current scene through every scene switch.                   *)
(***************************************************************************)
C29_Case == last.op = "mosaic_tile_dims" /\ last.exc = NoExc

\* C29: a returning mosaic_tile_dims gives None when the image at the
\* current scene and level has no M axis, and otherwise a Dimensions with
\* order YX and the sizes of Y and X of that image
C29_TileDimsFollowCurrentScene ==
    C29_Case =>
        IF InTuple("M", CurrentOrder)
        THEN /\ last.ret # None
             /\ last.ret.kind = "Dimensions"
             /\ last.ret.order = <<"Y", "X">>
             /\ last.ret.shape = <<CurrentSize("Y"), CurrentSize("X")>>
        ELSE last.ret = None

\* tile dims are handed out at a scene reached by a switch, with sizes of a
\* level other than the first
C29_Witness ==
    /\ C29_Case
    /\ last.ret # None
    /\ reader._current_scene_index # 0
    /\ reader._current_resolution_level # 0
    /\ last.ret.shape = <<CurrentSize("Y"), CurrentSize("X")>>

\* None is handed out at a scene without tiles reached from a scene with
\* tiles, whose dims had been read
C29_WitnessNoTiles ==
    /\ C29_Case
    /\ last.ret = None
    /\ last.pre._dims = None
    /\ reader._current_scene_index # 0
    /\ plugin.mosaic = "odd"

(***************************************************************************)
(* C27: get_image_data and get_image_dask_data with an output order reject *)
(* inconsistent selectors with the invalid-dimension-selector error: an    *)
(* int selector for an axis of the output order, and a list, tuple, range  *)
(* or slice selector for an axis that is not in the output order.  The     *)
(* failure leaves the scene, the level and the caches as they were.        *)
(***************************************************************************)
\* the selector of some axis is at odds with the output order
Inconsistent(order, kwargs) ==
    \E axis \in DOMAIN kwargs :
        \/ kwargs[axis].k = "int" /\ InTuple(axis, order.v)
        \/ kwargs[axis].k \in {"list", "tuple", "range", "slice"}
               /\ ~InTuple(axis, order.v)

\* a request in an output order with such a selector, during which the
\* format could read the image
C27_Case ==
    /\ last.op \in {"get_image_data", "get_image_dask_data"}
    /\ last.arg.order # None
    /\ Inconsistent(last.arg.order, last.arg.kwargs)
    /\ last.exc.site \notin Primitives

\* C27: the request fails with the invalid-dimension-selector error and the
\* scene, the level and every cache entry are as before the call
C27_RejectedAndNothingChanged ==
    C27_Case =>
        /\ last.exc.type = "InvalidDimensionSelector"
        /\ reader._current_scene_index = last.pre._current_scene_index
        /\ reader._current_resolution_level
               = last.pre._current_resolution_level
        /\ \A e \in CacheEntries : reader[e] = last.pre[e]

\* C27 as amended: the request fails with that error, the scene and the
\* level are as before, nothing was invalidated and no entry was dropped;
\* the entries of the views the request does not read are as before, and
\* the views it reads before the selectors are looked at stay cached
C27_RejectedAfterReading ==
    C27_Case =>
        /\ last.exc.type = "InvalidDimensionSelector"
        /\ reader._current_scene_index = last.pre._current_scene_index
        /\ reader._current_resolution_level
               = last.pre._current_resolution_level
        /\ last.switches = 0
        /\ \A e \in CacheEntries : last.pre[e] # None => reader[e] # None
        /\ \A e \in CacheEntries \ {"_xarray_dask_data", "_xarray_data",
                                    "_dims"} : reader[e] = last.pre[e]
        /\ reader._xarray_dask_data # None
        /\ reader._dims # None
        /\ last.op = "get_image_data" => reader._xarray_data # None
        /\ last.op = "get_image_dask_data"
               => reader._xarray_data = last.pre._xarray_data

\* an int selector for an axis of the output order is rejected by a reader
\* that had read nothing
C27_Witness ==
    /\ C27_Case
    /\ last.exc.type = "InvalidDimensionSelector"
    /\ \E axis \in DOMAIN last.arg.kwargs : last.arg.kwargs[axis].k = "int"
    /\ last.pre._xarray_dask_data = None
    /\ reader._xarray_dask_data # None

\* a slice selector for an axis the output order lacks is rejected
C27_WitnessSlice ==
    /\ C27_Case
    /\ last.exc.type = "InvalidDimensionSelector"
    /\ last.op = "get_image_data"
    /\ \E axis \in DOMAIN last.arg.kwargs : last.arg.kwargs[axis].k = "slice"

(***************************************************************************)
(* C28: reordering round trip.  For an output order that is a permutation  *)
(* of the labels of the native order, the data reshaped to the output      *)
(* order and reshaped back to the native order is equal to the original    *)
(* array element for element.                                              *)
(***************************************************************************)
\* the index tuples of an array of this shape
Indices(shp) ==
    {idx \in [1..Len(shp) -> 0..3] : \A j \in 1..Len(shp) : idx[j] < shp[j]}

IsPermutationOf(order, native) ==
    /\ Len(order) = Len(native)
    /\ \A i \in 1..Len(native) : InTuple(native[i], order)

\* data handed out in a permutation of the native order, without
\* selectors, was reshaped back
C28_Case ==
    /\ last.op = "reshape_data"
    /\ last.arg.kwargs = <<>>
    /\ IsPermutationOf(last.arg.order.v, reader._dims.order)

\* C28: the array handed out has the output order as its axes, and the
\* array reshaped back has the axes, the shape and every element of the
\* cached view the reader reshaped
C28_RoundTripRestoresElements ==
    C28_Case =>
        /\ last.exc = NoExc
        /\ last.ret.source.dims = last.arg.order.v
        /\ last.ret.dims = last.ret.source.source.dims
        /\ last.ret.shape = last.ret.source.source.shape
        /\ last.ret.source.source \in {reader._xarray_dask_data,
                                        reader._xarray_data}
        /\ \A idx \in Indices(last.ret.shape) :
               Element(last.ret, idx) = Element(last.ret.source.source, idx)

\* the round trip of five axes, two of them longer than one, at a scene
\* with more than one time point
C28_Witness ==
    /\ C28_Case
    /\ last.exc = NoExc
    /\ last.arg.order.v = <<"X", "Y", "Z", "C", "T">>
    /\ last.ret.source.shape[5] > 1
    /\ last.ret.source.shape # last.ret.shape
    /\ Element(last.ret.source, <<3, 0, 0, 1, 1>>)
           = Element(last.ret, <<1, 1, 0, 0, 3>>)

\* the round trip of the six axes of a scene with tiles
C28_WitnessTiles ==
    /\ C28_Case
    /\ last.exc = NoExc
    /\ Len(last.ret.dims) = 6

(***************************************************************************)
(* C30: building a stack over the scenes of a reader fails with the        *)
(* inconsistent-shape error whenever two scenes differ in shape and        *)
(* succeeds only when all scenes have the same shape; the stack then has   *)
(* one entry per scene along the new leading axis, in scenes order, each   *)
(* read while that scene was current.                                      *)
(***************************************************************************)
StackModes == [get_stack |-> "numpy", get_dask_stack |-> "dask"]

\* a stack request during which the format could read the image
C30_Case ==
    /\ last.op \in DOMAIN StackModes
    /\ last.exc.site \notin Primitives

\* the scenes of the format agree in axes and sizes at the level the reader
\* is at
ScenesAgree ==
    \A p \in 0..(Len(scenes) - 1) :
        SceneShape(plugin, p, last.pre._current_resolution_level)
            = SceneShape(plugin, 0, last.pre._current_resolution_level)

\* the stack has the array of each scene in scenes order, read at that
\* scene and the level of the reader, under a leading axis of their number
StackOfScenes(stack) ==
    /\ Len(stack.entries) = Len(scenes)
    /\ stack.shape = <<Len(scenes)>>
                         \o SceneShape(plugin, 0,
                                       last.pre._current_resolution_level)
    /\ \A i \in 1..Len(scenes) :
           /\ PyIndex(stack.entries[i].scene, Len(scenes)) = i - 1
           /\ stack.entries[i].level = last.pre._current_resolution_level
           /\ stack.entries[i].backing = StackModes[last.op]
           /\ stack.entries[i].dims = SceneOrder(plugin, i - 1)
           /\ stack.entries[i].shape
                  = SceneShape(plugin, i - 1, last.pre._current_resolution_level)

\* C30: the request raises the inconsistent-shape error if two scenes
\* differ in shape, and a request that returns has found the scenes to
\* agree and returns the stack of the scenes
C30_StackIffSameShapes ==
    C30_Case =>
        /\ ~ScenesAgree => last.exc.type = "InconsistentShapeError"
        /\ last.exc = NoExc => ScenesAgree /\ StackOfScenes(last.ret)

\* what holds: the request of a reader that is at one of its scenes raises
\* that error if two scenes differ and returns the stack if none do
C30_StackOfReaderAtAScene ==
    (C30_Case /\ PyIndexValid(last.pre._current_scene_index, Len(scenes)))
        =>
        IF ScenesAgree
        THEN last.exc = NoExc /\ StackOfScenes(last.ret)
        ELSE last.exc.type = "InconsistentShapeError"

\* a stack is built, and one is refused, by a reader at one of its scenes
C30_WitnessStack ==
    /\ C30_Case
    /\ last.exc = NoExc
    /\ last.pre._xarray_dask_data # None
    /\ last.ret.entries[1] # last.ret.entries[2]

C30_WitnessRefused ==
    /\ C30_Case
    /\ PyIndexValid(last.pre._current_scene_index, Len(scenes))
    /\ last.exc.type = "InconsistentShapeError"

(***************************************************************************)
(* C37                                                                     *)
(***************************************************************************)
\* C37: in every reachable state, if the eager cache _xarray_data is
\* present then the lazy cache _xarray_dask_data is present and is the
\* dask wrapper made from that eager array, not a result of _read_delayed.
C37_EagerEntryHasDerivedLazyEntry ==
    reader._xarray_data # None =>
        /\ reader._xarray_dask_data # None
        /\ reader._xarray_dask_data = FromArray(reader._xarray_data)
        /\ reader._xarray_dask_data.origin # "_read_delayed"
        /\ reader._xarray_data.origin = "_read_immediate"

\* an eager read that replaced a lazy entry read from _read_delayed, followed
\* by a lazy request
C37_Witness ==
    /\ last.op = "xarray_dask_data"
    /\ reader._xarray_data # None
    /\ reader._produced["_read_delayed"] = 1
    /\ reader._produced["_read_immediate"] = 1
    /\ reader._xarray_dask_data.origin = "from_array"
    /\ last.pre._dims # None

(***************************************************************************)
(* C33                                                                     *)
(***************************************************************************)
\* C33: in every reachable state, if _dims is present then the lazy cache
\* is present and _dims.order and _dims.shape are the axis labels and the
\* shape of the lazy array cached now, also after an eager read replaced
\* the lazy cache; a call leaves a present _dims as it was or, when it
\* assigned the scene or the level, drops it.
C33_DimsFollowCachedLazyArray ==
    /\ reader._dims # None =>
           /\ reader._xarray_dask_data # None
           /\ PyTuple([i \in 1..Len(reader._dims.order) |->
                          <<reader._dims.order[i]>>])
                  = AxisNames(reader._xarray_dask_data)
           /\ reader._dims.shape = reader._xarray_dask_data.shape
    /\ last.pre._dims # None =>
           \/ reader._dims = last.pre._dims
           \/ reader._dims = None /\ last.switches > 0

\* an eager read that replaced the lazy array the present _dims was built from
C33_Witness ==
    /\ last.op = "xarray_data"
    /\ last.exc = NoExc
    /\ last.pre._dims # None
    /\ last.pre._xarray_dask_data.origin = "_read_delayed"
    /\ reader._xarray_dask_data.origin = "from_array"
    /\ reader._dims = last.pre._dims
    /\ reader._current_scene_index # 0

\* a _dims dropped by a level switch
C33_WitnessDropped ==
    /\ last.op = "set_resolution_level"
    /\ last.pre._dims # None
    /\ reader._dims = None

(***************************************************************************)
(* C32                                                                     *)
(***************************************************************************)
\* the cache entry each primitive fills
EntryOf(prim) ==
    CASE prim = "_read_delayed" -> "_xarray_dask_data"
      [] prim = "_read_immediate" -> "_xarray_data"
      [] prim = "_get_stitched_dask_mosaic" -> "_mosaic_xarray_dask_data"
      [] prim = "_get_stitched_mosaic" -> "_mosaic_xarray_data"

\* the primitive raised during the latest call
RaisedIn(prim) ==
    last.exc \in {Exc("IOError", prim), Exc("IndexError", prim)}

\* the primitive returned a result during the latest call, a call that
\* assigned neither the scene nor the level
ReturnedIn(prim) ==
    /\ last.switches = 0
    /\ reader._produced[prim] > last.pre._produced[prim]

\* C32 as stated: of two consecutive accesses with no cache invalidation
\* between them, at most one invokes a given primitive.
C32_InvokedAtMostOnce ==
    [][\A prim \in Primitives :
           ((RaisedIn(prim) \/ ReturnedIn(prim)) /\ last'.switches = 0)
               => ~(RaisedIn(prim) \/ ReturnedIn(prim))']_vars

\* C32 amended: between two consecutive cache invalidations each plugin
\* primitive returns a result at most once, however the accessors are
\* called; a primitive is invoked only on a miss of its own cache entry,
\* its result fills that entry, and an invocation that raised leaves the
\* entry absent, so that the next access invokes the primitive again.
C32_ReturnsAtMostOnce ==
    \A prim \in Primitives :
        /\ reader._produced[prim] <= 1
        /\ reader._produced[prim] = 0 =>
               (prim # "_read_delayed" => reader[EntryOf(prim)] = None)
        /\ ReturnedIn(prim) =>
               /\ last.pre[EntryOf(prim)] = None
               /\ last.pre._produced[prim] = 0
               /\ reader[EntryOf(prim)] # None
        /\ RaisedIn(prim) => reader[EntryOf(prim)] = None

\* every primitive has returned once since the last invalidation and the
\* latest access, a repeated one, was served from the caches
C32_Witness ==
    /\ \A prim \in Primitives : reader._produced[prim] = 1
    /\ last.op = "mosaic_xarray_dask_data"
    /\ last.exc = NoExc
    /\ last.pre._produced = reader._produced
    /\ AllPresent(reader)

(***************************************************************************)
(* C38                                                                     *)
(***************************************************************************)
\* the access invokes the primitive in state s: the result count of the
\* primitive grows, or the primitive itself raises
Invokes(r, s, prim) ==
    \/ r.exc \in {Exc("IOError", prim), Exc("IndexError", prim)}
    \/ r.self._produced[prim] = s._produced[prim] + 1

\* C38: when _read_delayed raises during a lazy access, or _read_immediate
\* during an eager access, the caller receives that exception and the scene
\* index, the resolution level and every cache entry are as before the
\* access, so that the same access made again invokes the primitive again.
C38_FailedReadChangesNothing ==
    /\ reader._xarray_dask_data = None =>
           \A i \in DOMAIN LazyOutcomes(plugin, reader, {"_read_delayed"}) :
               LazyOutcomes(plugin, reader, {"_read_delayed"})[i]
                   = Raise(reader, Exc("IOError", "_read_delayed"))
    /\ reader._xarray_data = None =>
           xarray_data(plugin, reader, {"_read_immediate"})
               = Raise(reader, Exc("IOError", "_read_immediate"))
    /\ (last.op \in LazyAccesses /\ RaisedIn("_read_delayed")) =>
           /\ Unchanged
           /\ Invokes(xarray_dask_data(plugin, reader, {}), reader,
                      "_read_delayed")
    /\ (last.op = "xarray_data" /\ RaisedIn("_read_immediate")) =>
           /\ Unchanged
           /\ Invokes(xarray_data(plugin, reader, {}), reader,
                      "_read_immediate")

\* an eager read that failed on a reader holding the lazy view, the dims
\* and the metadata of a scene it had been switched to
C38_Witness ==
    /\ last.op = "xarray_data"
    /\ last.exc = Exc("IOError", "_read_immediate")
    /\ reader._xarray_dask_data # None
    /\ reader._dims # None
    /\ reader._metadata # None
    /\ reader._xarray_data = None
    /\ reader._current_scene_index = 1

\* a lazy access that failed on a reader with nothing cached
C38_WitnessLazy ==
    /\ last.op = "dims"
    /\ last.exc = Exc("IOError", "_read_delayed")
    /\ AllAbsent(reader)
    /\ reader._current_resolution_level = 1

(***************************************************************************)
(* C39                                                                     *)
(***************************************************************************)
\* C39: when resolution_level_dims exits, by returning or by raising,
\* current_resolution_level is the level the reader was at when the call
\* began, also when reading the shape of a visited level raised.
C39_LevelRestoredOnEveryExit ==
    last.op = "resolution_level_dims" =>
        reader._current_resolution_level
            = last.pre._current_resolution_level

\* the call left the reader at a level it visited: the shape of that level
\* could not be read
C39_LeftAtVisitedLevel ==
    /\ last.op = "resolution_level_dims"
    /\ last.exc = Exc("IOError", "_read_delayed")
    /\ last.pre._current_resolution_level = 1
    /\ reader._current_resolution_level = 0

(***************************************************************************)
(* C40                                                                     *)
(***************************************************************************)
\* the order was guessed for this shape
Guessed(d, shp) == d = _guess_dim_order(shp)

\* C40: for every shape, _guess_dim_order(shape) is a str of len(shape)
\* pairwise distinct labels, the last len(shape) labels of 'TCZYX', and a
\* Dimensions is constructed of the guessed order and the shape, also for
\* shapes of length 0 and of length greater than 5.
C40_GuessHasOneLabelPerAxis ==
    /\ dimcall.op = "_guess_dim_order" =>
           /\ Len(dimcall.ret.v) = Len(dimcall.shape)
           /\ PairwiseDistinct(dimcall.ret.v)
           /\ \A i \in 1..Len(dimcall.ret.v) :
                  dimcall.ret.v[Len(dimcall.ret.v) + 1 - i]
                      = DEFAULT_DIMENSION_ORDER[
                            Len(DEFAULT_DIMENSION_ORDER) + 1 - i]
    /\ (dimcall.op = "__init__" /\ Guessed(dimcall.dims, dimcall.shape)) =>
           /\ dimcall.exc = NoExc
           /\ dimcall.obj.shape = dimcall.shape

\* for shapes of at most five axes the guess is as C40 says
C40_UpToFiveAxes ==
    (dimcall.op # "none"
        /\ Len(dimcall.shape) <= Len(DEFAULT_DIMENSION_ORDER))
        => C40_GuessHasOneLabelPerAxis

\* the guess for a shape of six axes could not be paired with the shape
C40_SixAxesOneLabel ==
    /\ dimcall.op = "__init__"
    /\ Len(dimcall.shape) = 6
    /\ dimcall.dims = PyStr(<<"X">>)
    /\ dimcall.exc = Exc("ValueError",
                         "number of dimensions does not match shape")

(***************************************************************************)
(* C36                                                                     *)
(***************************************************************************)
\* the helpers with what each needs of its element
Helpers == {"binning", "imaged_by", "imaging_date", "objective"}

\* the conversion of the OME object raised, the element is missing, or the
\* element lacks what the helper reads of it
NothingToExtract ==
    \/ metacall.value.fault # "none"
    \/ metacall.name \notin DOMAIN metacall.value.elements
    \/ LET el == metacall.value.elements[metacall.name]
       IN  \/ metacall.op = "binning" /\ "Binning" \notin DOMAIN el.attrib
           \/ metacall.op = "imaged_by" /\ "UserName" \notin DOMAIN el.attrib
           \/ metacall.op = "imaging_date" /\ el.text = None
           \/ /\ metacall.op = "objective"
              /\ {"NominalMagnification", "LensNA"} \ DOMAIN el.attrib # {}

\* C36: binning, imaged_by, imaging_date and objective never raise; each
\* returns None when the extraction from the OME metadata raises, when the
\* element is missing and when the element lacks the attribute, or the
\* text, the helper reads.
C36_HelpersAreBestEffort ==
    metacall.op \in Helpers =>
        /\ metacall.exc = NoExc
        /\ NothingToExtract => metacall.ret = None

\* the conversion of the OME object to XML raised inside binning
C36_Witness ==
    /\ metacall.op = "binning"
    /\ metacall.value.fault = "XMLSyntaxError"
    /\ metacall.value.elements # <<>>
    /\ metacall.ret = None

\* an objective without its lens aperture
C36_WitnessAttribute ==
    /\ metacall.op = "objective"
    /\ metacall.value.fault = "none"
    /\ metacall.name \in DOMAIN metacall.value.elements
    /\ DOMAIN metacall.value.elements[metacall.name].attrib
           = {"NominalMagnification", "Immersion"}
    /\ metacall.ret = None

\* a date that is not in ISO format, and one that is, taken to Pacific time
C36_WitnessDate ==
    /\ metacall.op = "imaging_date"
    /\ metacall.value.fault = "none"
    /\ metacall.name \in DOMAIN metacall.value.elements
    /\ \/ /\ metacall.value.elements[metacall.name].text
                 = PyStr(<<"yesterday", "T", "03", "Z">>)
          /\ metacall.ret = None
       \/ /\ metacall.value.elements[metacall.name].text
                 = PyStr(<<"2024-01-02", "T", "03", "Z">>)
          /\ metacall.ret = PyStr(<<"2024-01-01">>)

\* an objective found in VALID_OBJECTIVES by the text it is part of
C36_WitnessObjective ==
    /\ metacall.op = "objective"
    /\ metacall.ret = PyStr(<<"2", "0", "x", "/", "0", ".", "8">>)

C34_SynchronizedCallsLeaveNoStaleEntry ==
    (/\ ~frame.raced
     /\ frame.fill.pc = "idle"
     /\ frame.switch.pc = "idle")
        => \A e \in CacheEntries :
               reader[e] # None => EntryIsCurrent(plugin, reader, e)

\* both calls have ended after their statements interleaved, and the lazy
\* view that is cached was read for a scene other than the current one
C34_Witness ==
    /\ frame.raced
    /\ frame.fill.pc = "idle"
    /\ frame.switch.pc = "idle"
    /\ reader._xarray_dask_data # None
    /\ reader._xarray_dask_data.scene # reader._current_scene_index

\* two synchronized calls: set_scene emptied the cache of one scene and a
\* lazy-view request filled it for the other
C34_WitnessSynchronized ==
    /\ ~frame.raced
    /\ frame.fill.pc = "idle"
    /\ frame.switch.pc = "idle"
    /\ reader._xarray_dask_data # None
    /\ reader._current_scene_index = 1
    /\ reader._xarray_dask_data.scene = 1

====
